---- MODULE Spec2Model ----
(***************************************************************************)
(* State-machine model of the account-security core of the Secure Notes    *)
(* backend (Django): login and lockout, password change and history, TOTP  *)
(* two-factor enrollment, the eSewa payment verification that mirrors a    *)
(* paid tier onto UserProfile and PremiumSubscription, the session list,   *)
(* and the tier limits and role predicates.                                *)
(*                                                                         *)
(* Conventions.                                                            *)
(*  - A nullable column is a set: {} is NULL / None, {x} holds x.          *)
(*  - A table keyed by user is a function on Usernames; a missing row is   *)
(*    {} and a present row r is {r}.                                       *)
(*  - `now` is the wall clock, counted in 30-second TOTP intervals; the    *)
(*    lockout cooloff and the password expiry are scaled to a few ticks.   *)
(*  - ip_address / user_agent of a request are one fixed value and are     *)
(*    left out of AuditLog rows.                                           *)
(*  - django-axes, the rate limiter and the JWT library are outside the    *)
(*    repository; the handlers are modelled from their own statements.     *)
(***************************************************************************)
EXTENDS Integers, Sequences, FiniteSets, TLC

VARIABLES
    now,            \* timezone.now()
    users,          \* auth User rows: username -> {} | {[password]}
    profile,        \* UserProfile rows: username -> {} | {row}
    history,        \* PasswordHistory rows per user, newest first
    subscription,   \* PremiumSubscription rows: username -> {} | {row}
    transactions,   \* Transaction rows, in creation order
    audit,          \* AuditLog rows, oldest first
    req,            \* the last request handled: handler, caller, inputs
    resp,           \* the Response it was given
    pwLog,          \* history variable: every password the account had, newest first
    confirmed,      \* history variable: the TOTP secret a verify call confirmed
    inst,           \* per worker: the in-memory UserProfile instance it loaded
    pc,             \* per worker: position in its request
    vreq,           \* the payment verification in flight (its locals and position)
    session,        \* request.session['esewa_transaction'] of the browser session
    issued,         \* how many transaction UUIDs generate_transaction_uuid has made
    sessions,       \* UserSession rows: id -> {} | {[user, is_active]}
    notes,          \* Note rows per owner: how many user.notes.count() finds
    staff,          \* auth User flags: username -> [is_staff, is_superuser]
    out             \* the value the last list or RBAC call returned

vars == <<now, users, profile, history, subscription, transactions, audit, req,
          resp, pwLog, confirmed, inst, pc, vreq, session, issued,
          sessions, notes, staff, out>>

----------------------------------------------------------------------------
\* Bounds of the model
MaxNow == 4
NumPasswords == 3
NumSecrets == 2
MaxAudit == 7
MaxFailed == 6
CooloffTicks == 2
ExpiryTicks == 3
NumWorkers == 3

\* Program constants
AXES_FAILURE_LIMIT == 5
PASSWORD_HISTORY_COUNT == 5
VALID_WINDOW == 1

Usernames == {"alice"}
Passwords == 1..NumPasswords
WeakPasswords == {0}
Secrets == 1..NumSecrets
Workers == 1..NumWorkers
ClientIp == "10.0.0.1"

Val(s) == CHOOSE x \in s : TRUE

----------------------------------------------------------------------------
\* Password hashing (django.contrib.auth.hashers)

Digest(p) == (p * 7 + 3) % 101

make_password(p) == [algorithm |-> "pbkdf2_sha256", digest |-> Digest(p)]

check_password(p, h) == h.algorithm = "pbkdf2_sha256" /\ h.digest = Digest(p)

\* validate_password(new_password, user): AUTH_PASSWORD_VALIDATORS
validate_password(p) == p \notin WeakPasswords

----------------------------------------------------------------------------
\* UserProfile

DefaultProfile(t) ==
    [two_factor_enabled |-> FALSE,
     two_factor_secret |-> {},
     password_changed_at |-> t,
     force_password_change |-> FALSE,
     failed_login_attempts |-> 0,
     last_failed_login |-> {},
     account_locked_until |-> {},
     last_login_ip |-> {},
     subscription_tier |-> "FREE"]

\* UserProfile.objects.get_or_create(user=user): the row, created with defaults
get_or_create(u) == IF profile[u] = {} THEN DefaultProfile(now) ELSE Val(profile[u])

\* pyotp.TOTP(secret).at(for_time, counter_offset): the code of one interval
totp_at(secret, counter) == (secret * 1009 + (counter + 7) * 13) % 1000000

\* verify_totp with valid_window=2: one more interval of drift on each side
verify_totp_wide(p, token, t) ==
    IF p.two_factor_secret = {} THEN FALSE
    ELSE \E i \in (0 - VALID_WINDOW - 1)..(VALID_WINDOW + 1) :
            token = totp_at(Val(p.two_factor_secret), t + i)

\* UserProfile.verify_totp(token)
verify_totp(p, token, t) ==
    IF p.two_factor_secret = {} THEN FALSE
    ELSE \E i \in (0 - VALID_WINDOW)..VALID_WINDOW :
            token = totp_at(Val(p.two_factor_secret), t + i)

\* is_password_expired granting one more tick
is_password_expired_late(p, t) == t > p.password_changed_at + ExpiryTicks + 1

\* UserProfile.is_password_expired()
is_password_expired(p, t) == t > p.password_changed_at + ExpiryTicks

\* is_account_locked answering for an expired lock without clearing it
is_account_locked_no_reset(p, t) ==
    [locked |-> p.account_locked_until # {} /\ t < Val(p.account_locked_until),
     profile |-> p]

\* is_account_locked clearing the counter of an expired lock, not the lock
is_account_locked_counter_only(p, t) ==
    IF p.account_locked_until # {}
    THEN IF t < Val(p.account_locked_until)
         THEN [locked |-> TRUE, profile |-> p]
         ELSE [locked |-> FALSE,
               profile |-> [p EXCEPT !.failed_login_attempts = 0]]
    ELSE [locked |-> FALSE, profile |-> p]

\* is_account_locked holding the lock through the instant it ends
is_account_locked_inclusive(p, t) ==
    IF p.account_locked_until # {}
    THEN IF t <= Val(p.account_locked_until)
         THEN [locked |-> TRUE, profile |-> p]
         ELSE [locked |-> FALSE,
               profile |-> [p EXCEPT !.account_locked_until = {},
                                     !.failed_login_attempts = 0]]
    ELSE [locked |-> FALSE, profile |-> p]

\* UserProfile.is_account_locked(): the answer and the instance it leaves
is_account_locked(p, t) ==
    IF p.account_locked_until # {}
    THEN IF t < Val(p.account_locked_until)
         THEN [locked |-> TRUE, profile |-> p]
         ELSE [locked |-> FALSE,
               profile |-> [p EXCEPT !.account_locked_until = {},
                                     !.failed_login_attempts = 0]]
    ELSE [locked |-> FALSE, profile |-> p]

\* increment_failed_login locking only above the threshold
increment_failed_login_above(p, t) ==
    LET n == p.failed_login_attempts + 1 IN
    [p EXCEPT !.failed_login_attempts = n,
              !.last_failed_login = {t},
              !.account_locked_until =
                  IF n > AXES_FAILURE_LIMIT THEN {t + CooloffTicks} ELSE @]

\* UserProfile.increment_failed_login(): the instance it saves
increment_failed_login(p, t) ==
    LET n == p.failed_login_attempts + 1 IN
    [p EXCEPT !.failed_login_attempts = n,
              !.last_failed_login = {t},
              !.account_locked_until =
                  IF n >= AXES_FAILURE_LIMIT THEN {t + CooloffTicks} ELSE @]

\* UserProfile.reset_failed_login()
reset_failed_login(p) ==
    [p EXCEPT !.failed_login_attempts = 0,
              !.last_failed_login = {},
              !.account_locked_until = {}]

----------------------------------------------------------------------------
\* AuditLog rows and responses

AuditEvent(user, action, text, arg) ==
    [user |-> user, action |-> action, details |-> <<text, arg>>]

Request(op, u, args) == [op |-> op, user |-> u, args |-> args]

NoRequest == Request("none", "", <<>>)

Response(status, kind, detail) == [status |-> status, kind |-> kind, detail |-> detail]

NoResponse == Response(0, "None", "")

\* django.contrib.auth.authenticate(username, password) with ModelBackend
authenticate(u, password) ==
    /\ u \in Usernames
    /\ users[u] # {}
    /\ check_password(password, Val(users[u]).password)

\* What a call returns besides its Response; none yet
NoOut == [kind |-> "none"]

\* ids of the user_sessions table
NumSessions == 3

SessionIds == 1..NumSessions

\* auth User.is_staff / is_superuser of an account created by register
NoFlags == [is_staff |-> FALSE, is_superuser |-> FALSE]

----------------------------------------------------------------------------
\* Init: the database after migration, no request handled yet

Init ==
    /\ now = 0
    /\ users = [u \in Usernames |-> {}]
    /\ profile = [u \in Usernames |-> {}]
    /\ history = [u \in Usernames |-> <<>>]
    /\ subscription = [u \in Usernames |-> {}]
    /\ transactions = <<>>
    /\ audit = <<>>
    /\ req = NoRequest
    /\ resp = NoResponse
    /\ pwLog = [u \in Usernames |-> <<>>]
    /\ confirmed = [u \in Usernames |-> {}]
    /\ inst = [w \in Workers |-> {}]
    /\ pc = [w \in Workers |-> "idle"]
    /\ vreq = {}
    /\ session = {}
    /\ issued = 0
    /\ sessions = [i \in SessionIds |-> {}]
    /\ notes = [u \in Usernames |-> 0]
    /\ staff = [u \in Usernames |-> NoFlags]
    /\ out = NoOut

\* The clock advances between requests
Tick ==
    /\ now < MaxNow
    /\ now' = now + 1
    /\ req' = NoRequest
    /\ resp' = NoResponse
    /\ UNCHANGED <<users, profile, history, subscription, transactions, audit,
                   pwLog, confirmed, inst, pc, vreq, session, issued,
                   sessions, notes, staff, out>>

\* register_view: RegisterSerializer.create, UserProfile.objects.create, audit
Register(u, password) ==
    /\ req' = Request("register", u, [password |-> password])
    /\ IF users[u] # {} \/ ~validate_password(password)
       THEN /\ resp' = Response(400, "ValidationError", "")
            /\ UNCHANGED <<users, profile, audit, pwLog>>
       ELSE /\ users' = [users EXCEPT ![u] = {[password |-> make_password(password)]}]
            /\ profile' = [profile EXCEPT ![u] = {DefaultProfile(now)}]
            /\ pwLog' = [pwLog EXCEPT ![u] = <<password>>]
            /\ audit' = Append(audit, AuditEvent({u}, "REGISTER", "New user registered", u))
            /\ resp' = Response(201, "Account", "User registered successfully")
    /\ UNCHANGED <<now, history, subscription, transactions, confirmed, inst, pc, vreq, session, issued,
                   sessions, notes, staff, out>>

\* the two-factor gate with the missing-token test dropped: the token is
\* only verified when one is supplied
two_factor_check_optional(p, two_factor_token, t) ==
    IF ~p.two_factor_enabled \/ two_factor_token = {} THEN "pass"
    ELSE IF ~verify_totp(p, Val(two_factor_token), t) THEN "invalid"
    ELSE "pass"

\* login_view, the two-factor gate: what the profile and the token decide
two_factor_check(p, two_factor_token, t) ==
    IF ~p.two_factor_enabled THEN "pass"
    ELSE IF two_factor_token = {} THEN "required"
    ELSE IF ~verify_totp(p, Val(two_factor_token), t) THEN "invalid"
    ELSE "pass"

\* an answer that tells an unknown username from a wrong password
InvalidCredentialsUserNotFound(u) ==
    IF users[u] = {} THEN Response(404, "NotFound", "User not found")
    ELSE Response(401, "AuthenticationFailure", "Invalid credentials")

\* login_view, the answer when authenticate() returns no user
InvalidCredentials(u) ==
    Response(401, "AuthenticationFailure", "Invalid credentials")

\* login_view
Login(u, password, two_factor_token) ==
    /\ req' = Request("login", u, [password |-> password, token |-> two_factor_token])
    /\ UNCHANGED <<now, users, history, subscription, transactions, pwLog,
                   confirmed, inst, pc, vreq, session, issued,
                   sessions, notes, staff, out>>
    /\ IF ~authenticate(u, password)
       THEN /\ audit' = Append(audit, AuditEvent({}, "FAILED_LOGIN",
                                   "Failed login attempt for username", u))
            /\ resp' = InvalidCredentials(u)
            /\ UNCHANGED profile
       ELSE
        LET lock == is_account_locked(get_or_create(u), now)
            p == lock.profile
        IN
        IF lock.locked
        THEN /\ profile' = [profile EXCEPT ![u] = {p}]
             /\ audit' = Append(audit, AuditEvent({u}, "ACCESS_DENIED",
                                    "Account is locked", ""))
             /\ resp' = Response(403, "Locked",
                                 "Account is locked. Please try again later.")
        ELSE IF two_factor_check(p, two_factor_token, now) = "required"
        THEN /\ profile' = [profile EXCEPT ![u] = {p}]
             /\ resp' = Response(200, "TwoFactorRequired",
                                 "Please provide 2FA token")
             /\ UNCHANGED audit
        ELSE IF two_factor_check(p, two_factor_token, now) = "invalid"
        THEN /\ profile' = [profile EXCEPT ![u] = {p}]
             /\ audit' = Append(audit, AuditEvent({u}, "FAILED_LOGIN",
                                    "Invalid 2FA token", ""))
             /\ resp' = Response(401, "AuthenticationFailure",
                                 "Invalid 2FA token")
        ELSE IF is_password_expired(p, now)
        THEN /\ profile' = [profile EXCEPT ![u] = {p}]
             /\ resp' = Response(403, "PasswordExpired",
                                 "Your password has expired. Please change it.")
             /\ UNCHANGED audit
        ELSE /\ profile' = [profile EXCEPT ![u] =
                              {[p EXCEPT !.last_login_ip = {ClientIp},
                                         !.failed_login_attempts = 0,
                                         !.last_failed_login = {}]}]
             /\ audit' = Append(audit, AuditEvent({u}, "LOGIN", "Successful login", ""))
             /\ resp' = Response(200, "Tokens", "Login successful")

\* UserProfile.increment_failed_login, called on the stored row of an account
IncrementFailedLogin(u) ==
    /\ profile[u] # {}
    /\ Val(profile[u]).failed_login_attempts < MaxFailed
    /\ profile' = [profile EXCEPT ![u] = {increment_failed_login(Val(profile[u]), now)}]
    /\ req' = Request("increment_failed_login", u, <<>>)
    /\ resp' = NoResponse
    /\ UNCHANGED <<now, users, history, subscription, transactions, audit,
                   pwLog, confirmed, inst, pc, vreq, session, issued,
                   sessions, notes, staff, out>>

\* UserProfile.reset_failed_login, called on the stored row of an account
ResetFailedLogin(u) ==
    /\ profile[u] # {}
    /\ profile' = [profile EXCEPT ![u] = {reset_failed_login(Val(profile[u]))}]
    /\ req' = Request("reset_failed_login", u, <<>>)
    /\ resp' = NoResponse
    /\ UNCHANGED <<now, users, history, subscription, transactions, audit,
                   pwLog, confirmed, inst, pc, vreq, session, issued,
                   sessions, notes, staff, out>>

----------------------------------------------------------------------------
\* Lockout: registration, logins, recorded failures and the clock

LoginPasswords == 1..2

AuditRoom(n) == Len(audit) < n

NextLockout ==
    \/ Tick
    \/ \E u \in Usernames : AuditRoom(MaxAudit) /\ Register(u, 1)
    \/ \E u \in Usernames, p \in LoginPasswords :
          AuditRoom(MaxAudit) /\ Login(u, p, {})
    \/ \E u \in Usernames : IncrementFailedLogin(u)
    \/ \E u \in Usernames : ResetFailedLogin(u)

SpecLockout == Init /\ [][NextLockout]_vars

----------------------------------------------------------------------------
\* Two-factor enrollment

\* setup_two_factor whose disabling clears the secret and leaves the flag
SetupTwoFactorSecretOnly(u, enable, secret) ==
    /\ users[u] # {}
    /\ req' = Request("setup_two_factor", u, [enable |-> enable])
    /\ IF enable
       THEN /\ profile' = [profile EXCEPT ![u] =
                             {[get_or_create(u) EXCEPT !.two_factor_secret = {secret}]}]
            /\ resp' = Response(200, "Secret",
                                "Scan QR code with your authenticator app")
            /\ UNCHANGED <<audit, confirmed>>
       ELSE /\ profile' = [profile EXCEPT ![u] =
                             {[get_or_create(u) EXCEPT !.two_factor_secret = {}]}]
            /\ audit' = Append(audit, AuditEvent({u}, "UPDATE_NOTE", "2FA disabled", ""))
            /\ confirmed' = [confirmed EXCEPT ![u] = {}]
            /\ resp' = Response(200, "Ok",
                                "2FA disabled successfully")
    /\ UNCHANGED <<now, users, history, subscription, transactions, pwLog,
                   inst, pc, vreq, session, issued,
                   sessions, notes, staff, out>>

\* setup_two_factor: enable=True generates and saves a secret
\* (generate_totp_secret, pyotp.random_base32); enable=False disables
SetupTwoFactor(u, enable, secret) ==
    /\ users[u] # {}
    /\ req' = Request("setup_two_factor", u, [enable |-> enable])
    /\ IF enable
       THEN /\ profile' = [profile EXCEPT ![u] =
                             {[get_or_create(u) EXCEPT !.two_factor_secret = {secret}]}]
            /\ resp' = Response(200, "Secret",
                                "Scan QR code with your authenticator app")
            /\ UNCHANGED <<audit, confirmed>>
       ELSE /\ profile' = [profile EXCEPT ![u] =
                             {[get_or_create(u) EXCEPT !.two_factor_enabled = FALSE,
                                                       !.two_factor_secret = {}]}]
            /\ audit' = Append(audit, AuditEvent({u}, "UPDATE_NOTE", "2FA disabled", ""))
            /\ confirmed' = [confirmed EXCEPT ![u] = {}]
            /\ resp' = Response(200, "Ok",
                                "2FA disabled successfully")
    /\ UNCHANGED <<now, users, history, subscription, transactions, pwLog,
                   inst, pc, vreq, session, issued,
                   sessions, notes, staff, out>>

\* verify_two_factor
VerifyTwoFactor(u, token) ==
    /\ users[u] # {}
    /\ req' = Request("verify_two_factor", u, [token |-> token])
    /\ LET p == get_or_create(u) IN
       IF verify_totp(p, token, now)
       THEN /\ profile' = [profile EXCEPT ![u] = {[p EXCEPT !.two_factor_enabled = TRUE]}]
            /\ audit' = Append(audit, AuditEvent({u}, "UPDATE_NOTE",
                                   "2FA enabled successfully", ""))
            /\ confirmed' = [confirmed EXCEPT ![u] = p.two_factor_secret]
            /\ resp' = Response(200, "Ok",
                                "2FA enabled successfully")
       ELSE /\ profile' = [profile EXCEPT ![u] = {p}]
            /\ resp' = Response(400, "InvalidToken",
                                "Invalid token")
            /\ UNCHANGED <<audit, confirmed>>
    /\ UNCHANGED <<now, users, history, subscription, transactions, pwLog,
                   inst, pc, vreq, session, issued,
                   sessions, notes, staff, out>>

\* The codes an authenticator (or an attacker holding some secret) can present
\* at time t: the code of every secret for the intervals t-d .. t+d
Drift == 2
CodesAt(t, d) == {totp_at(k, c) : k \in Secrets, c \in (t - d)..(t + d)}

\* {} (no token) or one code
TokensAt(t, d) == {{}} \cup {{c} : c \in CodesAt(t, d)}

\* An account registered at time 0 with password 1
InitRegistered ==
    /\ now = 0
    /\ users = [u \in Usernames |-> {[password |-> make_password(1)]}]
    /\ profile = [u \in Usernames |-> {DefaultProfile(0)}]
    /\ history = [u \in Usernames |-> <<>>]
    /\ subscription = [u \in Usernames |-> {}]
    /\ transactions = <<>>
    /\ audit = <<AuditEvent({"alice"}, "REGISTER", "New user registered", "alice")>>
    /\ req = NoRequest
    /\ resp = NoResponse
    /\ pwLog = [u \in Usernames |-> <<1>>]
    /\ confirmed = [u \in Usernames |-> {}]
    /\ inst = [w \in Workers |-> {}]
    /\ pc = [w \in Workers |-> "idle"]
    /\ vreq = {}
    /\ session = {}
    /\ issued = 0
    /\ sessions = [i \in SessionIds |-> {}]
    /\ notes = [u \in Usernames |-> 0]
    /\ staff = [u \in Usernames |-> NoFlags]
    /\ out = NoOut

MaxAudit2FA == 4

\* Enrollment, login and lockout of one account; codes of the current interval
Next2FA ==
    \/ Tick
    \/ \E u \in Usernames, enable \in BOOLEAN, k \in Secrets :
          AuditRoom(MaxAudit2FA) /\ SetupTwoFactor(u, enable, k)
    \/ \E u \in Usernames, token \in CodesAt(now, 0) :
          AuditRoom(MaxAudit2FA) /\ VerifyTwoFactor(u, token)
    \/ \E u \in Usernames, token \in TokensAt(now, 0) :
          AuditRoom(MaxAudit2FA) /\ Login(u, 1, token)
    \/ \E u \in Usernames : IncrementFailedLogin(u)

Spec2FA == InitRegistered /\ [][Next2FA]_vars

\* TOTP verification with clock drift: codes of the intervals now-2 .. now+2
NextTotp ==
    \/ Tick
    \/ \E u \in Usernames, enable \in BOOLEAN, k \in Secrets :
          AuditRoom(MaxAudit2FA) /\ SetupTwoFactor(u, enable, k)
    \/ \E u \in Usernames, token \in CodesAt(now, Drift) :
          AuditRoom(MaxAudit2FA) /\ VerifyTwoFactor(u, token)
    \/ \E u \in Usernames, token \in TokensAt(now, Drift) :
          AuditRoom(MaxAudit2FA) /\ Login(u, 1, token)

SpecTotp == InitRegistered /\ [][NextTotp]_vars

----------------------------------------------------------------------------
\* Password change

Take(seq, n) == SubSeq(seq, 1, IF Len(seq) < n THEN Len(seq) ELSE n)

\* validators.check_password_history(user, new_password): TRUE when acceptable
check_password_history(u, new_password) ==
    \A i \in 1..Len(Take(history[u], PASSWORD_HISTORY_COUNT)) :
        ~check_password(new_password, history[u][i].password_hash)

\* the rows after a password change that prunes no PasswordHistory row
password_change_writes_unpruned(u, new_password) ==
    [users |-> [users EXCEPT ![u] = {[password |-> make_password(new_password)]}],
     profile |-> [profile EXCEPT ![u] =
                    {[Val(profile[u]) EXCEPT !.password_changed_at = now,
                                             !.force_password_change = FALSE]}],
     history |-> [history EXCEPT ![u] =
                    <<[password_hash |-> make_password(new_password)]>> \o @]]

\* the rows after a password change that leaves force_password_change alone
password_change_writes_keep_flag(u, new_password) ==
    [users |-> [users EXCEPT ![u] = {[password |-> make_password(new_password)]}],
     profile |-> [profile EXCEPT ![u] =
                    {[Val(profile[u]) EXCEPT !.password_changed_at = now]}],
     history |-> [history EXCEPT ![u] =
                    Take(<<[password_hash |-> make_password(new_password)]>> \o @,
                         PASSWORD_HISTORY_COUNT)]]

\* change_password_view, lines 393-413: the rows after a password change
password_change_writes(u, new_password) ==
    [users |-> [users EXCEPT ![u] = {[password |-> make_password(new_password)]}],
     profile |-> [profile EXCEPT ![u] =
                    {[Val(profile[u]) EXCEPT !.password_changed_at = now,
                                             !.force_password_change = FALSE]}],
     history |-> [history EXCEPT ![u] =
                    Take(<<[password_hash |-> make_password(new_password)]>> \o @,
                         PASSWORD_HISTORY_COUNT)]]

no_writes == [users |-> users, profile |-> profile, history |-> history]

\* change_password_view with the new password stored before it is validated
change_password_view_store_first(u, old_password, new_password) ==
    IF ~check_password(old_password, Val(users[u]).password)
    THEN [resp |-> Response(400, "AuthenticationFailure", "Incorrect password"),
          db |-> no_writes, event |-> <<>>]
    ELSE IF ~check_password_history(u, new_password)
    THEN [resp |-> Response(400, "PolicyViolation", "Cannot reuse recent passwords"),
          db |-> no_writes, event |-> <<>>]
    ELSE IF profile[u] = {}
    THEN [resp |-> Response(500, "ServerError", "UserProfile.DoesNotExist"),
          db |-> [no_writes EXCEPT !.users = password_change_writes(u, new_password).users],
          event |-> <<>>]
    ELSE IF ~validate_password(new_password)
    THEN [resp |-> Response(400, "PolicyViolation", "validate_password"),
          db |-> password_change_writes(u, new_password), event |-> <<>>]
    ELSE [resp |-> Response(200, "Ok", "Password changed successfully"),
          db |-> password_change_writes(u, new_password),
          event |-> <<AuditEvent({u}, "UPDATE_NOTE", "Password changed", "")>>]

\* change_password_view (authentication/views.py, the routed handler): the
\* response, the rows it leaves and the audit row it writes
change_password_view(u, old_password, new_password) ==
    IF ~check_password(old_password, Val(users[u]).password)
    THEN [resp |-> Response(400, "AuthenticationFailure", "Incorrect password"),
          db |-> no_writes, event |-> <<>>]
    ELSE IF ~check_password_history(u, new_password)
    THEN [resp |-> Response(400, "PolicyViolation", "Cannot reuse recent passwords"),
          db |-> no_writes, event |-> <<>>]
    ELSE IF ~validate_password(new_password)
    THEN [resp |-> Response(400, "PolicyViolation", "validate_password"),
          db |-> no_writes, event |-> <<>>]
    ELSE IF profile[u] = {}
    THEN \* user.save() is committed, then UserProfile.objects.get raises
         [resp |-> Response(500, "ServerError", "UserProfile.DoesNotExist"),
          db |-> [no_writes EXCEPT !.users = password_change_writes(u, new_password).users],
          event |-> <<>>]
    ELSE [resp |-> Response(200, "Ok", "Password changed successfully"),
          db |-> password_change_writes(u, new_password),
          event |-> <<AuditEvent({u}, "UPDATE_NOTE", "Password changed", "")>>]

\* change_password_view as a request of the logged-in user u (both passwords
\* supplied)
ChangePassword(u, old_password, new_password) ==
    /\ users[u] # {}
    /\ req' = Request("change_password", u,
                      [old_password |-> old_password, new_password |-> new_password])
    /\ LET r == change_password_view(u, old_password, new_password) IN
         /\ resp' = r.resp
         /\ users' = r.db.users
         /\ profile' = r.db.profile
         /\ history' = r.db.history
         /\ audit' = audit \o r.event
         /\ pwLog' = IF r.db.users # users
                     THEN [pwLog EXCEPT ![u] = Take(<<new_password>> \o @,
                                                    PASSWORD_HISTORY_COUNT + 1)]
                     ELSE pwLog
    /\ UNCHANGED <<now, subscription, transactions, confirmed, inst, pc, vreq, session, issued,
                   sessions, notes, staff, out>>

\* The admin site sets force_password_change on a profile (UserProfileAdmin)
AdminForcePasswordChange(u) ==
    /\ profile[u] # {}
    /\ ~Val(profile[u]).force_password_change
    /\ profile' = [profile EXCEPT ![u] = {[Val(profile[u]) EXCEPT
                                             !.force_password_change = TRUE]}]
    /\ req' = Request("admin_force_password_change", u, <<>>)
    /\ resp' = NoResponse
    /\ UNCHANGED <<now, users, history, subscription, transactions, audit,
                   pwLog, confirmed, inst, pc, vreq, session, issued,
                   sessions, notes, staff, out>>

MaxAuditPw == 4

AllPasswords == Passwords \cup WeakPasswords

NextPassword ==
    \/ Tick
    \/ \E u \in Usernames, p \in AllPasswords :
          AuditRoom(MaxAuditPw) /\ Register(u, p)
    \/ \E u \in Usernames, old \in AllPasswords, new \in AllPasswords :
          AuditRoom(MaxAuditPw) /\ ChangePassword(u, old, new)
    \/ \E u \in Usernames : AdminForcePasswordChange(u)

SpecPassword == Init /\ [][NextPassword]_vars

\* Logins around the expiry of the password: the clock, recorded failures,
\* logins with the right and a wrong password, and password changes
MaxAuditExpiry == 5

NextExpiry ==
    \/ Tick
    \/ \E u \in Usernames, p \in LoginPasswords :
          AuditRoom(MaxAuditExpiry) /\ Login(u, p, {})
    \/ \E u \in Usernames : IncrementFailedLogin(u)
    \/ \E u \in Usernames, old \in LoginPasswords, new \in LoginPasswords :
          AuditRoom(MaxAuditExpiry) /\ ChangePassword(u, old, new)

SpecExpiry == InitRegistered /\ [][NextExpiry]_vars

\* A long run of password changes by the account's owner: enough different
\* passwords to fill the history and go past its cap
NumHistoryPasswords == 6

HistoryPasswords == 1..NumHistoryPasswords

MaxAuditHistory == 7

NextHistory ==
    \E u \in Usernames, new \in HistoryPasswords :
       \E old \in {Head(pwLog[u])} \cup WeakPasswords :
          AuditRoom(MaxAuditHistory) /\ ChangePassword(u, old, new)

SpecHistory == InitRegistered /\ [][NextHistory]_vars

----------------------------------------------------------------------------
\* Concurrent failed-login recordings: each worker holds its own UserProfile
\* instance (a copy of the row read when the request loaded it) and
\* increment_failed_login writes that instance back

\* the worker's request loads the profile row: UserProfile.objects.get
LoadProfile(w, u) ==
    /\ pc[w] = "idle"
    /\ profile[u] # {}
    /\ inst' = [inst EXCEPT ![w] = profile[u]]
    /\ pc' = [pc EXCEPT ![w] = "loaded"]
    /\ req' = Request("load_profile", u, <<w>>)
    /\ resp' = NoResponse
    /\ UNCHANGED <<now, users, profile, history, subscription, transactions,
                   audit, pwLog, confirmed, vreq, session, issued,
                   sessions, notes, staff, out>>

\* increment_failed_login on the loaded instance: += 1, lock test, self.save()
SaveIncrement(w, u) ==
    /\ pc[w] = "loaded"
    /\ profile' = [profile EXCEPT ![u] = {increment_failed_login(Val(inst[w]), now)}]
    /\ inst' = [inst EXCEPT ![w] = profile'[u]]
    /\ pc' = [pc EXCEPT ![w] = "done"]
    /\ req' = Request("increment_failed_login", u, <<w>>)
    /\ resp' = NoResponse
    /\ UNCHANGED <<now, users, history, subscription, transactions, audit,
                   pwLog, confirmed, vreq, session, issued,
                   sessions, notes, staff, out>>

NextConc ==
    \/ Tick
    \/ \E w \in Workers, u \in Usernames : LoadProfile(w, u)
    \/ \E w \in Workers, u \in Usernames : SaveIncrement(w, u)

SpecConc == InitRegistered /\ [][NextConc]_vars

\* C3 (as claimed): the failed-login recordings that have completed, whatever
\* the interleaving of their read and write steps, have each added one to
\* failed_login_attempts: N recordings done, counter increased by N.
C3_NoLostIncrement ==
    \A u \in Usernames :
        Val(profile[u]).failed_login_attempts
            = Cardinality({w \in Workers : pc[w] = "done"})

----------------------------------------------------------------------------
\* eSewa payments

SUBSCRIPTION_PRICES_NPR == [free |-> 0, pro |-> 599, enterprise |-> 1999]

\* plan_type.upper()
upper(plan_type) ==
    [free |-> "FREE", pro |-> "PRO", enterprise |-> "ENTERPRISE"][plan_type]

PlanTypes == {"pro", "enterprise", "gold"}
Amounts == {599, 1999}
OrderIds == {"o1", "o2"}
RefIds == {"", "r1", "r2"}

\* PremiumSubscription.objects.get_or_create defaults
DefaultSubscription == [tier |-> "FREE", status |-> "INACTIVE", billing_cycle_start |-> {}]

\* verify_with_esewa(ref_id, order_id): bool(ref_id)
verify_with_esewa(ref_id, order_id) == ref_id # ""

\* a lookup by order id alone, whoever owns the row
TransactionOfAnyUser(u, order_id) ==
    LET hits == {i \in 1..Len(transactions) :
                    transactions[i].esewa_order_id = order_id}
    IN IF hits = {} THEN 0 ELSE CHOOSE i \in hits : TRUE

\* index of the caller's Transaction row with this order id, 0 when none
TransactionOf(u, order_id) ==
    LET hits == {i \in 1..Len(transactions) :
                    /\ transactions[i].user = u
                    /\ transactions[i].esewa_order_id = order_id}
    IN IF hits = {} THEN 0 ELSE CHOOSE i \in hits : TRUE

PaymentsCompleted(u) ==
    Cardinality({i \in 1..Len(audit) :
                    audit[i].user = {u} /\ audit[i].action = "PAYMENT_COMPLETED"})

\* a column without unique=True: no other row ever stands in the way
esewa_ref_id_not_unique(idx, ref_id) == FALSE

\* Transaction.esewa_ref_id is unique: saving row idx with this reference
\* fails when another row holds it
esewa_ref_id_taken(idx, ref_id) ==
    \E i \in 1..Len(transactions) :
        i # idx /\ transactions[i].esewa_ref_id = {ref_id}

\* initiate_esewa_payment
InitiatePayment(u, plan_type, amount, order_id) ==
    /\ users[u] # {}
    /\ req' = Request("initiate_esewa_payment", u,
                      [plan_type |-> plan_type, amount |-> amount, order_id |-> order_id])
    /\ IF plan_type \notin DOMAIN SUBSCRIPTION_PRICES_NPR
       THEN /\ resp' = Response(400, "ValidationError", "Invalid plan type")
            /\ UNCHANGED <<transactions, audit>>
       ELSE IF amount # SUBSCRIPTION_PRICES_NPR[plan_type]
       THEN /\ resp' = Response(400, "ValidationError", "Amount does not match plan price")
            /\ UNCHANGED <<transactions, audit>>
       ELSE IF \E i \in 1..Len(transactions) : transactions[i].esewa_order_id = order_id
       THEN \* esewa_order_id is unique: IntegrityError, caught by the handler
            /\ resp' = Response(500, "ServerError", "Payment initiation failed")
            /\ UNCHANGED <<transactions, audit>>
       ELSE /\ transactions' = Append(transactions,
                                  [user |-> u, amount |-> amount, status |-> "PENDING",
                                   subscription_tier |-> upper(plan_type),
                                   esewa_order_id |-> order_id, esewa_ref_id |-> {}])
            /\ audit' = Append(audit, AuditEvent({u}, "PAYMENT_INITIATED", plan_type, order_id))
            /\ resp' = Response(200, "Ok", "initiated")
    /\ UNCHANGED <<now, users, profile, history, subscription, pwLog, confirmed,
                   inst, pc, vreq, session, issued,
                   sessions, notes, staff, out>>

\* what the eSewa status API would answer for the reference at the time of the
\* request; verify_with_esewa does not ask it
GatewayStates == {"confirms", "unreachable"}

\* verify_esewa_payment, lines 168-196: input checks, Transaction lookup,
\* transaction_obj.save() with status COMPLETED
VerifyPaymentBegin(u, ref_id, order_id, gateway) ==
    /\ users[u] # {}
    /\ vreq = {}
    /\ req' = Request("verify_esewa_payment", u,
                      [ref_id |-> ref_id, order_id |-> order_id, gateway |-> gateway])
    /\ LET idx == TransactionOf(u, order_id) IN
       IF ref_id = ""
       THEN /\ resp' = Response(400, "ValidationError", "ref_id and order_id required")
            /\ UNCHANGED <<transactions, vreq>>
       ELSE IF idx = 0
       THEN /\ resp' = Response(404, "NotFound", "Transaction not found")
            /\ UNCHANGED <<transactions, vreq>>
       ELSE IF ~verify_with_esewa(ref_id, order_id)
       THEN /\ transactions' = [transactions EXCEPT ![idx].status = "FAILED"]
            /\ resp' = Response(400, "PaymentFailed", "Payment verification failed")
            /\ UNCHANGED vreq
       ELSE IF esewa_ref_id_taken(idx, ref_id)
       THEN \* esewa_ref_id is unique: IntegrityError, caught by the handler
            /\ resp' = Response(500, "ServerError", "Payment verification failed")
            /\ UNCHANGED <<transactions, vreq>>
       ELSE /\ transactions' = [transactions EXCEPT ![idx].status = "COMPLETED",
                                                    ![idx].esewa_ref_id = {ref_id}]
            /\ vreq' = {[user |-> u, ref_id |-> ref_id, order_id |-> order_id,
                         idx |-> idx, pc |-> "txn_saved", subscription |-> {},
                         before |-> [txn |-> transactions[idx],
                                     tier |-> {r.subscription_tier : r \in profile[u]},
                                     sub |-> subscription[u],
                                     completed |-> PaymentsCompleted(u)]]}
            /\ resp' = Response(0, "Pending", "txn_saved")
    /\ UNCHANGED <<now, users, profile, history, subscription, audit, pwLog,
                   confirmed, inst, pc, session, issued,
                   sessions, notes, staff, out>>

\* verify_esewa_payment, lines 199-201: PremiumSubscription get_or_create
VerifyPaymentGetSubscription ==
    /\ vreq # {}
    /\ Val(vreq).pc = "txn_saved"
    /\ LET v == Val(vreq)
           row == IF subscription[v.user] = {} THEN DefaultSubscription
                  ELSE Val(subscription[v.user])
       IN /\ subscription' = [subscription EXCEPT ![v.user] = {row}]
          /\ vreq' = {[v EXCEPT !.pc = "sub_loaded", !.subscription = {row}]}
          /\ req' = Request("verify_esewa_payment", v.user,
                            [ref_id |-> v.ref_id, order_id |-> v.order_id])
          /\ resp' = Response(0, "Pending", "sub_loaded")
    /\ UNCHANGED <<now, users, profile, history, transactions, audit, pwLog,
                   confirmed, inst, pc, session, issued,
                   sessions, notes, staff, out>>

\* verify_esewa_payment, lines 202-205: subscription.save()
VerifyPaymentSaveSubscription ==
    /\ vreq # {}
    /\ Val(vreq).pc = "sub_loaded"
    /\ LET v == Val(vreq)
           row == [Val(v.subscription) EXCEPT
                     !.tier = transactions[v.idx].subscription_tier,
                     !.status = "ACTIVE",
                     !.billing_cycle_start = {now}]
       IN /\ subscription' = [subscription EXCEPT ![v.user] = {row}]
          /\ vreq' = {[v EXCEPT !.pc = "sub_saved", !.subscription = {row}]}
          /\ req' = Request("verify_esewa_payment", v.user,
                            [ref_id |-> v.ref_id, order_id |-> v.order_id])
          /\ resp' = Response(0, "Pending", "sub_saved")
    /\ UNCHANGED <<now, users, profile, history, transactions, audit, pwLog,
                   confirmed, inst, pc, session, issued,
                   sessions, notes, staff, out>>

\* verify_esewa_payment, lines 208-227: profile.save(), the PAYMENT_COMPLETED
\* audit row and the response
VerifyPaymentFinish ==
    /\ vreq # {}
    /\ Val(vreq).pc = "sub_saved"
    /\ LET v == Val(vreq)
           tier == transactions[v.idx].subscription_tier
       IN /\ req' = Request("verify_esewa_payment", v.user,
                            [ref_id |-> v.ref_id, order_id |-> v.order_id])
          /\ IF profile[v.user] = {}
             THEN \* UserProfile.DoesNotExist, caught by the handler
                  /\ resp' = Response(500, "ServerError", "Payment verification failed")
                  /\ UNCHANGED <<profile, audit>>
             ELSE /\ profile' = [profile EXCEPT ![v.user] =
                                   {[Val(profile[v.user]) EXCEPT !.subscription_tier = tier]}]
                  /\ audit' = Append(audit, AuditEvent({v.user}, "PAYMENT_COMPLETED",
                                                       v.ref_id, tier))
                  /\ resp' = Response(200, "Ok", "Payment verified successfully")
    /\ vreq' = {}
    /\ UNCHANGED <<now, users, history, subscription, transactions, pwLog,
                   confirmed, inst, pc, session, issued,
                   sessions, notes, staff, out>>

\* The admin site deletes a UserProfile row (UserProfileAdmin keeps the default
\* delete permission)
AdminDeleteProfile(u) ==
    /\ profile[u] # {}
    /\ profile' = [profile EXCEPT ![u] = {}]
    /\ req' = Request("admin_delete_profile", u, <<>>)
    /\ resp' = NoResponse
    /\ UNCHANGED <<now, users, history, subscription, transactions, audit,
                   pwLog, confirmed, inst, pc, vreq, session, issued,
                   sessions, notes, staff, out>>

MaxAuditPay == 4

MaxNowPay == 2

NextPay ==
    \/ now < MaxNowPay /\ Tick
    \/ \E u \in Usernames, plan_type \in PlanTypes, amount \in Amounts,
          order_id \in OrderIds :
          AuditRoom(MaxAuditPay) /\ InitiatePayment(u, plan_type, amount, order_id)
    \/ \E u \in Usernames, ref_id \in RefIds, order_id \in OrderIds,
          gateway \in GatewayStates :
          AuditRoom(MaxAuditPay) /\ VerifyPaymentBegin(u, ref_id, order_id, gateway)
    \/ VerifyPaymentGetSubscription
    \/ VerifyPaymentSaveSubscription
    \/ VerifyPaymentFinish
    \/ \E u \in Usernames : AdminDeleteProfile(u)

SpecPay == InitRegistered /\ [][NextPay]_vars

\* a Transaction row that a second account created with initiate_esewa_payment
\* and, when COMPLETED, verified
OtherAccountRow(txn_status) ==
    [user |-> "bob", amount |-> SUBSCRIPTION_PRICES_NPR.pro, status |-> txn_status,
     subscription_tier |-> upper("pro"), esewa_order_id |-> "o2",
     esewa_ref_id |-> IF txn_status = "COMPLETED" THEN {"r2"} ELSE {}]

\* The account of InitRegistered beside the transactions of a second account:
\* none, one pending, or one completed
InitOwnership ==
    /\ now = 0
    /\ users = [u \in Usernames |-> {[password |-> make_password(1)]}]
    /\ profile = [u \in Usernames |-> {DefaultProfile(0)}]
    /\ history = [u \in Usernames |-> <<>>]
    /\ subscription = [u \in Usernames |-> {}]
    /\ transactions \in {<<>>, <<OtherAccountRow("PENDING")>>,
                         <<OtherAccountRow("COMPLETED")>>}
    /\ audit = <<AuditEvent({"alice"}, "REGISTER", "New user registered", "alice")>>
    /\ req = NoRequest
    /\ resp = NoResponse
    /\ pwLog = [u \in Usernames |-> <<1>>]
    /\ confirmed = [u \in Usernames |-> {}]
    /\ inst = [w \in Workers |-> {}]
    /\ pc = [w \in Workers |-> "idle"]
    /\ vreq = {}
    /\ session = {}
    /\ issued = 0
    /\ sessions = [i \in SessionIds |-> {}]
    /\ notes = [u \in Usernames |-> 0]
    /\ staff = [u \in Usernames |-> NoFlags]
    /\ out = NoOut

SpecOwnership == InitOwnership /\ [][NextPay]_vars

\* the verify_esewa_payment request that returns in this step was a replay:
\* its transaction was COMPLETED when the request arrived
ReplayReturns ==
    /\ vreq # {}
    /\ Val(vreq).before.txn.status = "COMPLETED"
    /\ req'.op = "verify_esewa_payment"
    /\ resp'.kind # "Pending"

\* C9 (as claimed): a verification replayed for a transaction that is already
\* COMPLETED returns AlreadyApplied and leaves the transaction, the profile
\* tier and the subscription record (tier, status, billing_cycle_start) as
\* they were, and writes no second PAYMENT_COMPLETED audit row.
C9_ReplayIsIdempotent ==
    [][ReplayReturns =>
        LET v == Val(vreq) IN
        /\ resp'.kind = "AlreadyApplied"
        /\ transactions'[v.idx] = v.before.txn
        /\ {r.subscription_tier : r \in profile'[v.user]} = v.before.tier
        /\ subscription'[v.user] = v.before.sub
        /\ PaymentsCompleted(v.user)' = v.before.completed
      ]_vars

\* C11 (as claimed): a verify_esewa_payment call in which a write fails (the
\* profile row is missing, or saving the gateway reference violates
\* uniqueness) is answered with an error and leaves the transaction row, the
\* subscription record and the profile tier as they were before the call.
C11_VerifyAllOrNothing ==
    [][(req'.op = "verify_esewa_payment" /\ resp'.kind = "ServerError") =>
        IF vreq = {}
        THEN /\ transactions' = transactions
             /\ subscription' = subscription
             /\ profile' = profile
        ELSE LET v == Val(vreq) IN
             /\ transactions'[v.idx] = v.before.txn
             /\ subscription'[v.user] = v.before.sub
             /\ {r.subscription_tier : r \in profile'[v.user]} = v.before.tier
      ]_vars

\* the status changes the specification allows a Transaction
AllowedTransitions ==
    {<<"PENDING", "PROCESSING">>, <<"PROCESSING", "COMPLETED">>,
     <<"PROCESSING", "FAILED">>, <<"COMPLETED", "REFUNDED">>}

\* C12 (as claimed): every change of a Transaction's status is one of
\* PENDING -> PROCESSING, PROCESSING -> COMPLETED, PROCESSING -> FAILED,
\* COMPLETED -> REFUNDED; and the step that saves a status is not run on a
\* transaction that already has that status (no transition runs twice).
C12_StatusTransitions ==
    [][/\ \A i \in 1..Len(transactions) :
             transactions'[i].status # transactions[i].status
                => <<transactions[i].status, transactions'[i].status>>
                       \in AllowedTransitions
       /\ (vreq = {} /\ vreq' # {})
             => Val(vreq').before.txn.status # transactions'[Val(vreq').idx].status
      ]_vars

\* C16 (as claimed): a verification requested while the gateway confirmation
\* fails as an upstream error leaves the transaction PENDING: the request
\* marks it neither COMPLETED nor FAILED.
C16_GatewayErrorLeavesPending ==
    [][(vreq = {} /\ req'.op = "verify_esewa_payment"
            /\ req'.args.gateway = "unreachable"
            /\ TransactionOf(req'.user, req'.args.order_id) # 0) =>
        LET idx == TransactionOf(req'.user, req'.args.order_id) IN
        transactions[idx].status = "PENDING"
            => transactions'[idx].status = "PENDING"
      ]_vars

\* C10 (as claimed): in every reachable state, a user that has both records
\* has the same tier in UserProfile.subscription_tier and PremiumSubscription.tier.
C10_TiersAgree ==
    \A u \in Usernames :
        (profile[u] # {} /\ subscription[u] # {})
            => Val(profile[u]).subscription_tier = Val(subscription[u]).tier

----------------------------------------------------------------------------
\* eSewa callback (notes/esewa.py, notes/payments.py)

\* A JSON value of a callback payload: its Python type and the text that
\* f"{value}" renders for it
StrValue(t) == [type |-> "str", text |-> t]
NumValue(t) == [type |-> "num", text |-> t]
None == [type |-> "none", text |-> "None"]

\* f"{value}"
str(x) == x.text

\* the secret of verify_esewa_payment, and any other key
secret_key == "8gBm/:&EnhH.1/q"
other_key == "unknown"

\* base64(hmac.new(key, msg, sha256).digest()): a MAC without collisions
hmac_sha256(key, msg) == [key |-> key, msg |-> msg]

\* data.get(field)
get(data, field) ==
    IF field \in (DOMAIN data) \ {"kind"} /\ data[field] # {}
    THEN Val(data[field]) ELSE None

\* signed_field_names.split(','), with the default '' when the key is missing
split_names(data) ==
    IF data.signed_field_names = {} THEN <<"">>
    ELSE Val(data.signed_field_names).text

\* the signed string with the field names only, the values left out
signature_string_names_only(data) ==
    LET fields == split_names(data) IN
    [i \in 1..Len(fields) |-> <<fields[i], "">>]

\* ','.join(f"{field}={data.get(field)}" for field in fields)
signature_string(data) ==
    LET fields == split_names(data) IN
    [i \in 1..Len(fields) |-> <<fields[i], str(get(data, fields[i]))>>]

\* esewa.verify_esewa_payment(data); an exception inside the try returns False
verify_esewa_payment(data) ==
    IF data.kind # "dict" THEN FALSE                  \* .get on a non-dict
    ELSE IF data.signed_field_names # {}
            /\ Val(data.signed_field_names).type # "str" THEN FALSE  \* .split
    ELSE /\ data.signature # {}
         /\ Val(data.signature).type = "str"
         /\ Val(data.signature).text = hmac_sha256(secret_key, signature_string(data))

\* generate_transaction_uuid(): the n-th UUID made
MaxIssued == 2
UuidOf(n) == <<"LUX-1", "LUX-2", "LUX-3">>[n]

\* Callback inputs
Opt(S) == {{}} \cup {{x} : x \in S}
AmountValues == {StrValue("100"), NumValue("100"), StrValue("200"), StrValue("None")}
UuidValues == {StrValue("LUX-1"), StrValue("LUX-2"), StrValue("None")}
FieldValues(field) == IF field = "total_amount" THEN AmountValues ELSE UuidValues
NameLists ==
    {<<"total_amount", "transaction_uuid">>, <<"total_amount">>,
     <<"transaction_uuid">>, <<"total_amount", "memo">>, <<"">>}
NamesValues == {StrValue(l) : l \in NameLists} \cup {NumValue(<<>>)}

Unsigned ==
    [kind : {"dict"}, total_amount : Opt(AmountValues),
     transaction_uuid : Opt(UuidValues), signed_field_names : Opt(NamesValues),
     signature : {{}}]

\* the payload with the signature a holder of the key computes for it, as
\* generate_esewa_form_data does
Sign(data, key) ==
    [data EXCEPT !.signature =
        {StrValue(hmac_sha256(key, signature_string(data)))}]

Signed == {Sign(d, secret_key) : d \in Unsigned}

\* a signed payload with one of its fields replaced afterwards
Tampered ==
    {[d EXCEPT ![f] = {x}] :
        d \in Signed, f \in {"total_amount", "transaction_uuid"}, x \in AmountValues \cup UuidValues}

\* a body that decodes to JSON that is not an object
NotDict ==
    [kind |-> "list", total_amount |-> {}, transaction_uuid |-> {},
     signed_field_names |-> {}, signature |-> {}]

Payloads ==
    Unsigned \cup Signed \cup Tampered \cup {Sign(d, other_key) : d \in Unsigned}
        \cup {NotDict}

Referers == {"https://esewa.com.np/", "https://esewa.com.np.evil.example/",
             "https://evil.example/"}

\* 'esewa.com.np' in referer
referer_allowed(referer) ==
    referer \in {"https://esewa.com.np/", "https://esewa.com.np.evil.example/"}

PlanIds == {"pro", "enterprise", "gold"}

\* payments.initiate_esewa_payment
InitiateEsewa(u, plan_id) ==
    /\ users[u] # {}
    /\ req' = Request("payments_initiate", u, [plan_id |-> plan_id])
    /\ IF plan_id \notin {"pro", "enterprise"}
       THEN /\ resp' = Response(400, "ValidationError", "Invalid plan")
            /\ UNCHANGED <<session, issued>>
       ELSE /\ issued < MaxIssued
            /\ issued' = issued + 1
            /\ session' = {[uuid |-> UuidOf(issued + 1), plan_id |-> plan_id,
                            user_id |-> u]}
            /\ resp' = Response(200, "Ok", UuidOf(issued + 1))
    /\ UNCHANGED <<now, users, profile, history, subscription, transactions,
                   audit, pwLog, confirmed, inst, pc, vreq,
                   sessions, notes, staff, out>>

\* esewa_transaction.get('uuid') of request.session.get('esewa_transaction', {})
session_uuid == IF session = {} THEN None ELSE StrValue(Val(session).uuid)

\* payments.esewa_success
EsewaSuccess(referer, data) ==
    /\ req' = Request("esewa_success", "", [referer |-> referer, data |-> data])
    /\ IF ~referer_allowed(referer)
       THEN /\ resp' = Response(403, "Forbidden", "Invalid callback origin")
            /\ UNCHANGED session
       ELSE IF ~verify_esewa_payment(data)
       THEN /\ resp' = IF data.kind # "dict"
                       THEN \* decoded_data.get raises in the warning, line 125
                            Response(500, "ServerError", "Payment processing failed")
                       ELSE Response(400, "SignatureFailure", "Invalid signature")
            /\ UNCHANGED session
       ELSE IF get(data, "transaction_uuid") # session_uuid
       THEN /\ resp' = Response(400, "Mismatch", "Transaction UUID mismatch")
            /\ UNCHANGED session
       ELSE /\ session' = {}
            /\ resp' = Response(200, "Ok", "Payment successful")
    /\ UNCHANGED <<now, users, profile, history, subscription, transactions,
                   audit, pwLog, confirmed, inst, pc, vreq, issued,
                   sessions, notes, staff, out>>

\* payments.esewa_failure
EsewaFailure ==
    /\ req' = Request("esewa_failure", "", <<>>)
    /\ session' = {}
    /\ resp' = Response(400, "PaymentFailed", "Payment failed")
    /\ UNCHANGED <<now, users, profile, history, subscription, transactions,
                   audit, pwLog, confirmed, inst, pc, vreq, issued,
                   sessions, notes, staff, out>>

\* the response reaches the caller; the next request can arrive
ReturnResponse ==
    /\ req # NoRequest
    /\ req' = NoRequest
    /\ resp' = NoResponse
    /\ UNCHANGED <<now, users, profile, history, subscription, transactions,
                   audit, pwLog, confirmed, inst, pc, vreq, session, issued,
                   sessions, notes, staff, out>>

NextCallback ==
    \/ \E u \in Usernames, plan_id \in PlanIds :
          req = NoRequest /\ InitiateEsewa(u, plan_id)
    \/ \E referer \in Referers, data \in Payloads :
          req = NoRequest /\ EsewaSuccess(referer, data)
    \/ req = NoRequest /\ EsewaFailure
    \/ ReturnResponse

SpecCallback == InitRegistered /\ [][NextCallback]_vars

----------------------------------------------------------------------------
\* The payment form (notes/esewa.generate_esewa_form_data) and its verification

\* f"{float(x):.2f}" for the amounts of the orders below
TwoDecimals ==
    ("9.99" :> "9.99") @@ ("29.99" :> "29.99") @@ ("599" :> "599.00")
        @@ ("599.5" :> "599.50") @@ ("599.00" :> "599.00")

\* float(x) succeeds
is_float(x) == x.type \in {"num", "str"} /\ x.text \in DOMAIN TwoDecimals

\* f"{float(total_amount):.2f}"
format_amount(total_amount) == TwoDecimals[total_amount.text]

\* order_data.get('product_code', 'EPAYTEST')
product_code_of(order_data) ==
    IF order_data.product_code = {} THEN StrValue("EPAYTEST")
    ELSE Val(order_data.product_code)

\* the form dict with its signature; the fields the signature does not cover
\* and verification does not read (tax_amount, the URLs, ...) are left out
FormData(total_amount, transaction_uuid, product_code, signed) ==
    [kind |-> "dict",
     total_amount |-> {StrValue(total_amount)},
     transaction_uuid |-> {transaction_uuid},
     product_code |-> {product_code},
     signed_field_names |->
         {StrValue(<<"total_amount", "transaction_uuid", "product_code">>)},
     signature |-> {StrValue(hmac_sha256(secret_key, signed))}]

\* generate_esewa_form_data signing the amount as it was given, unformatted
generate_esewa_form_data_raw_amount(order_data) ==
    IF ~is_float(order_data.total_amount) THEN {}
    ELSE LET formatted_amount == format_amount(order_data.total_amount)
             product_code == product_code_of(order_data)
         IN {FormData(formatted_amount, order_data.transaction_uuid, product_code,
                      <<<<"total_amount", str(order_data.total_amount)>>,
                        <<"transaction_uuid", str(order_data.transaction_uuid)>>,
                        <<"product_code", str(product_code)>>>>)}

\* generate_esewa_form_data(order_data): {} when float() raises, else the form
generate_esewa_form_data(order_data) ==
    IF ~is_float(order_data.total_amount) THEN {}
    ELSE LET formatted_amount == format_amount(order_data.total_amount)
             product_code == product_code_of(order_data)
         IN {FormData(formatted_amount, order_data.transaction_uuid, product_code,
                      <<<<"total_amount", formatted_amount>>,
                        <<"transaction_uuid", str(order_data.transaction_uuid)>>,
                        <<"product_code", str(product_code)>>>>)}

\* order_data: amounts as numbers and as text, a UUID or none, a product code,
\* none, or the key left out
OrderAmounts ==
    {NumValue("9.99"), NumValue("29.99"), NumValue("599"), StrValue("599"),
     NumValue("599.5"), StrValue("599.00"), StrValue("abc"), None}

OrderUuids == {StrValue("LUX-1"), StrValue("LUX-2"), None}

OrderProductCodes == Opt({StrValue("EPAYTEST"), StrValue("NP-ES-LUX"), None})

Orders ==
    [total_amount : OrderAmounts, transaction_uuid : OrderUuids,
     product_code : OrderProductCodes]

\* what a form field can be replaced by on its way through the browser
FormChanges ==
    {<<"total_amount", StrValue("9.99")>>, <<"total_amount", StrValue("599.00")>>,
     <<"transaction_uuid", StrValue("LUX-2")>>, <<"transaction_uuid", None>>,
     <<"product_code", StrValue("EPAYTEST")>>, <<"product_code", None>>}

\* generate_esewa_form_data is called for an order
GenerateForm(order_data) ==
    /\ req' = Request("generate_esewa_form_data", "", order_data)
    /\ out' = IF generate_esewa_form_data(order_data) = {}
              THEN [kind |-> "raised"]
              ELSE [kind |-> "form",
                    data |-> Val(generate_esewa_form_data(order_data))]
    /\ resp' = NoResponse
    /\ UNCHANGED <<now, users, profile, history, subscription, transactions,
                   audit, pwLog, confirmed, inst, pc, vreq, session, issued,
                   sessions, notes, staff>>

\* verify_esewa_payment is called on a form
VerifyData(op, data) ==
    /\ req' = Request(op, "", <<>>)
    /\ out' = [kind |-> "verified", data |-> data,
               accepted |-> verify_esewa_payment(data)]
    /\ resp' = NoResponse
    /\ UNCHANGED <<now, users, profile, history, subscription, transactions,
                   audit, pwLog, confirmed, inst, pc, vreq, session, issued,
                   sessions, notes, staff>>

\* ... on the form as generated
VerifyForm == out.kind = "form" /\ VerifyData("verify_form", out.data)

\* ... on the form with one field replaced
VerifyChangedForm(change) ==
    /\ out.kind = "form"
    /\ VerifyData("verify_changed_form",
                  [out.data EXCEPT ![change[1]] = {change[2]}])

NextForm ==
    \/ \E order_data \in Orders : GenerateForm(order_data)
    \/ VerifyForm
    \/ \E change \in FormChanges : VerifyChangedForm(change)

SpecForm == InitRegistered /\ [][NextForm]_vars

----------------------------------------------------------------------------
\* The audit ledger under the account operations and account deletion

\* logout_view
Logout(u) ==
    /\ users[u] # {}
    /\ req' = Request("logout", u, <<>>)
    /\ audit' = Append(audit, AuditEvent({u}, "LOGOUT", "User logged out", ""))
    /\ resp' = Response(200, "Ok", "Logout successful")
    /\ UNCHANGED <<now, users, profile, history, subscription, transactions,
                   pwLog, confirmed, inst, pc, vreq, session, issued,
                   sessions, notes, staff, out>>

\* the rows of a table that do not belong to user u, in order
RECURSIVE RowsNotOf(_, _)
RowsNotOf(rows, u) ==
    IF rows = <<>> THEN <<>>
    ELSE IF Head(rows).user = u THEN RowsNotOf(Tail(rows), u)
         ELSE <<Head(rows)>> \o RowsNotOf(Tail(rows), u)

\* account deletion with AuditLog.user declared on_delete=CASCADE: the
\* user's audit rows go with the account
AdminDeleteUserCascade(u) ==
    /\ users[u] # {}
    /\ users' = [users EXCEPT ![u] = {}]
    /\ profile' = [profile EXCEPT ![u] = {}]
    /\ history' = [history EXCEPT ![u] = <<>>]
    /\ subscription' = [subscription EXCEPT ![u] = {}]
    /\ transactions' = RowsNotOf(transactions, u)
    /\ audit' = RowsNotOf(audit, {u})
    /\ pwLog' = [pwLog EXCEPT ![u] = <<>>]
    /\ confirmed' = [confirmed EXCEPT ![u] = {}]
    /\ req' = Request("admin_delete_user", u, <<>>)
    /\ resp' = NoResponse
    /\ sessions' = [i \in SessionIds |->
                       IF sessions[i] # {} /\ Val(sessions[i]).user = u
                       THEN {} ELSE sessions[i]]
    /\ notes' = [notes EXCEPT ![u] = 0]
    /\ staff' = [staff EXCEPT ![u] = NoFlags]
    /\ UNCHANGED <<now, inst, pc, vreq, session, issued, out>>

\* The admin site deletes a User (CustomUserAdmin): profile, password history,
\* subscription, transactions, sessions and notes cascade; AuditLog.user is
\* SET_NULL
AdminDeleteUser(u) ==
    /\ users[u] # {}
    /\ users' = [users EXCEPT ![u] = {}]
    /\ profile' = [profile EXCEPT ![u] = {}]
    /\ history' = [history EXCEPT ![u] = <<>>]
    /\ subscription' = [subscription EXCEPT ![u] = {}]
    /\ transactions' = RowsNotOf(transactions, u)
    /\ audit' = [i \in 1..Len(audit) |->
                    IF audit[i].user = {u} THEN [audit[i] EXCEPT !.user = {}]
                    ELSE audit[i]]
    /\ pwLog' = [pwLog EXCEPT ![u] = <<>>]
    /\ confirmed' = [confirmed EXCEPT ![u] = {}]
    /\ req' = Request("admin_delete_user", u, <<>>)
    /\ resp' = NoResponse
    /\ sessions' = [i \in SessionIds |->
                       IF sessions[i] # {} /\ Val(sessions[i]).user = u
                       THEN {} ELSE sessions[i]]
    /\ notes' = [notes EXCEPT ![u] = 0]
    /\ staff' = [staff EXCEPT ![u] = NoFlags]
    /\ UNCHANGED <<now, inst, pc, vreq, session, issued, out>>

MaxAuditLedger == 4

NextAudit ==
    \/ Tick
    \/ \E u \in Usernames : AuditRoom(MaxAuditLedger) /\ Register(u, 1)
    \/ \E u \in Usernames, p \in LoginPasswords :
          AuditRoom(MaxAuditLedger) /\ Login(u, p, {})
    \/ \E u \in Usernames : AuditRoom(MaxAuditLedger) /\ Logout(u)
    \/ \E u \in Usernames, old \in LoginPasswords, new \in AllPasswords :
          AuditRoom(MaxAuditLedger) /\ ChangePassword(u, old, new)
    \/ \E u \in Usernames : AdminDeleteUser(u)

SpecAudit == Init /\ [][NextAudit]_vars

\* C17 (as claimed): the ledger at the later state extends the ledger at the
\* earlier state: no recorded event is modified or removed.
C17_LedgerAppendOnlyClaimed ==
    [][/\ Len(audit') >= Len(audit)
       /\ SubSeq(audit', 1, Len(audit)) = audit]_vars

\* C17 (amended): no recorded event is removed, and its action and details
\* never change; its actor changes only when the actor's account is deleted,
\* which sets it to null.
C17_LedgerAppendOnly ==
    [][/\ Len(audit') >= Len(audit)
       /\ \A i \in 1..Len(audit) :
            /\ audit'[i].action = audit[i].action
            /\ audit'[i].details = audit[i].details
            /\ \/ audit'[i].user = audit[i].user
               \/ /\ audit'[i].user = {}
                  /\ users[Val(audit[i].user)] # {}
                  /\ users'[Val(audit[i].user)] = {}
      ]_vars

\* C17 witness: the ledger holds events of a deleted account, with null actor,
\* followed by an event of an account registered afterwards
C17_Witness ==
    /\ Len(audit) >= 3
    /\ audit[1].action = "REGISTER" /\ audit[1].user = {}
    /\ audit[Len(audit)].user # {}

----------------------------------------------------------------------------
\* Consecutive failed logins of an account, read off the audit trail: the
\* FAILED_LOGIN rows written for username u since the account's last LOGIN
\* (or its REGISTER row).
RECURSIVE FailedRun(_, _)
FailedRun(u, log) ==
    IF log = <<>> THEN 0
    ELSE LET e == log[Len(log)]
             rest == SubSeq(log, 1, Len(log) - 1)
         IN IF e.user = {u} /\ e.action \in {"LOGIN", "REGISTER"} THEN 0
            ELSE IF e.action = "FAILED_LOGIN"
                    /\ e.details = <<"Failed login attempt for username", u>>
                 THEN 1 + FailedRun(u, rest)
                 ELSE FailedRun(u, rest)

Locked(u) == profile[u] # {} /\ is_account_locked(Val(profile[u]), now).locked

\* C1 (as claimed): the failed login that brings an account's run of consecutive
\* failed logins to 5 or more leaves is_account_locked() true; the answer turns
\* from true to false only once now > account_locked_until; and a login that
\* passes the lock check of an account whose lock was set leaves
\* failed_login_attempts = 0.
C1_LockedAfterFiveFailures ==
    [][\A u \in Usernames :
        /\ (/\ users[u] # {}
            /\ FailedRun(u, audit') >= AXES_FAILURE_LIMIT
            /\ FailedRun(u, audit') > FailedRun(u, audit))
           => Locked(u)'
        /\ (Locked(u) /\ ~Locked(u)')
           => now' > Val(Val(profile[u]).account_locked_until)
        /\ (/\ profile[u] # {}
            /\ Val(profile[u]).account_locked_until # {}
            /\ req'.op = "login" /\ req'.user = u
            /\ resp'.kind \notin {"Locked", "AuthenticationFailure"})
           => Val(profile'[u]).failed_login_attempts = 0
      ]_vars

----------------------------------------------------------------------------
\* Sessions (views_profile.sessions_view): listing and terminating

\* The callers of sessions_view: the account of Usernames and a second
\* account, of whose rows only those in user_sessions matter here
SessionUsers == Usernames \cup {"bob"}

UserSessionRows == [user : SessionUsers, is_active : BOOLEAN]

\* request.data.get('session_id'): a primary-key value, nothing, or a value
\* that is not a number
SessionIdArg(type, id) == [type |-> type, id |-> id]

SessionIdArgs ==
    {SessionIdArg("int", i) : i \in 1..(NumSessions + 1)}
        \cup {SessionIdArg("none", 0), SessionIdArg("text", 0)}

\* UserSession.objects.filter(is_active=True), without the user filter
all_active_sessions(user) ==
    {i \in SessionIds : sessions[i] # {} /\ Val(sessions[i]).is_active}

\* UserSession.objects.filter(user=request.user, is_active=True)
active_sessions(user) ==
    {i \in SessionIds : /\ sessions[i] # {}
                        /\ Val(sessions[i]).user = user
                        /\ Val(sessions[i]).is_active}

\* UserSession.objects.get(id=session_id), without the user filter
get_any_session(session_id, user) ==
    IF session_id.type = "int" /\ session_id.id \in SessionIds
    THEN {i \in {session_id.id} : sessions[i] # {}}
    ELSE {}

\* UserSession.objects.get(id=session_id, user=request.user): the ids found
get_session(session_id, user) ==
    IF session_id.type = "int" /\ session_id.id \in SessionIds
    THEN {i \in {session_id.id} :
             sessions[i] # {} /\ Val(sessions[i]).user = user}
    ELSE {}

\* UserSession.mark_inactive
mark_inactive(s) == [s EXCEPT !.is_active = FALSE]

\* sessions_view, GET
ListSessions(user) ==
    /\ req' = Request("sessions_list", user, <<>>)
    /\ out' = [kind |-> "sessions", ids |-> active_sessions(user)]
    /\ resp' = Response(200, "Ok", "")
    /\ UNCHANGED <<now, users, profile, history, subscription, transactions,
                   audit, pwLog, confirmed, inst, pc, vreq, session, issued,
                   sessions, notes, staff>>

\* sessions_view, POST
RevokeSession(user, session_id) ==
    /\ req' = Request("sessions_revoke", user, [session_id |-> session_id])
    /\ out' = NoOut
    /\ IF session_id.type = "text"
       THEN \* int() of the value raises ValueError, which nothing catches
            /\ resp' = Response(500, "ServerError", "")
            /\ UNCHANGED <<sessions, audit>>
       ELSE IF get_session(session_id, user) = {}
       THEN /\ resp' = Response(404, "NotFound", "Session not found")
            /\ UNCHANGED <<sessions, audit>>
       ELSE LET i == Val(get_session(session_id, user)) IN
            /\ sessions' = [sessions EXCEPT ![i] = {mark_inactive(Val(sessions[i]))}]
            /\ audit' = Append(audit, AuditEvent({user}, "UPDATE_NOTE",
                                   "Session terminated", ""))
            /\ resp' = Response(200, "Ok", "Session terminated")
    /\ UNCHANGED <<now, users, profile, history, subscription, transactions,
                   pwLog, confirmed, inst, pc, vreq, session, issued,
                   notes, staff>>

\* One registered account and any content of the user_sessions table
InitSessions ==
    /\ now = 0
    /\ users = [u \in Usernames |-> {[password |-> make_password(1)]}]
    /\ profile = [u \in Usernames |-> {DefaultProfile(0)}]
    /\ history = [u \in Usernames |-> <<>>]
    /\ subscription = [u \in Usernames |-> {}]
    /\ transactions = <<>>
    /\ audit = <<AuditEvent({"alice"}, "REGISTER", "New user registered", "alice")>>
    /\ req = NoRequest
    /\ resp = NoResponse
    /\ pwLog = [u \in Usernames |-> <<1>>]
    /\ confirmed = [u \in Usernames |-> {}]
    /\ inst = [w \in Workers |-> {}]
    /\ pc = [w \in Workers |-> "idle"]
    /\ vreq = {}
    /\ session = {}
    /\ issued = 0
    /\ sessions \in [SessionIds -> {{}} \cup {{r} : r \in UserSessionRows}]
    /\ notes = [u \in Usernames |-> 0]
    /\ staff = [u \in Usernames |-> NoFlags]
    /\ out = NoOut

MaxAuditSessions == 3

NextSessions ==
    \/ \E u \in SessionUsers : ListSessions(u)
    \/ \E u \in SessionUsers, id \in SessionIdArgs :
          AuditRoom(MaxAuditSessions) /\ RevokeSession(u, id)

SpecSessions == InitSessions /\ [][NextSessions]_vars

----------------------------------------------------------------------------
\* Tier limits and role predicates (notes/rbac_utils.py, notes/permissions.py)

Tiers == {"FREE", "PRO", "ENTERPRISE"}

\* SubscriptionLimits.LIMITS
LIMITS ==
    [FREE |-> [max_notes |-> 50, max_upload_size_mb |-> 5, api_access |-> FALSE,
               features |-> <<"basic_notes", "text_only">>],
     PRO |-> [max_notes |-> 1000, max_upload_size_mb |-> 500, api_access |-> TRUE,
              features |-> <<"basic_notes", "file_uploads", "advanced_search",
                             "api_access">>],
     ENTERPRISE |-> [max_notes |-> 999999, max_upload_size_mb |-> 5000,
                     api_access |-> TRUE,
                     features |-> <<"basic_notes", "file_uploads",
                                    "advanced_search", "api_access",
                                    "team_management", "custom_integrations">>]]

\* SubscriptionLimits.get_limit: LIMITS.get(tier, {}).get(limit_type)
get_limit(tier, limit_type) ==
    IF tier \in DOMAIN LIMITS THEN {LIMITS[tier][limit_type]} ELSE {}

\* get_max_notes with the fallback taken for every tier
get_max_notes_fallback(tier) == 50

\* SubscriptionLimits.get_max_notes: get_limit(...) or 50
get_max_notes(tier) ==
    LET v == get_limit(tier, "max_notes") IN
    IF v = {} \/ Val(v) = 0 THEN 50 ELSE Val(v)

\* SubscriptionLimits.get_max_upload_size_mb: get_limit(...) or 5
get_max_upload_size_mb(tier) ==
    LET v == get_limit(tier, "max_upload_size_mb") IN
    IF v = {} \/ Val(v) = 0 THEN 5 ELSE Val(v)

\* SubscriptionLimits.has_api_access: get_limit(...) or False
has_api_access(tier) ==
    LET v == get_limit(tier, "api_access") IN
    IF v = {} THEN FALSE ELSE Val(v)

\* SubscriptionLimits.get_features: get_limit(...) or []
get_features(tier) ==
    LET v == get_limit(tier, "features") IN
    IF v = {} THEN <<>> ELSE Val(v)

\* check_note_limit comparing with <=
check_note_limit_inclusive(user) ==
    IF profile[user] # {}
    THEN LET limit == get_max_notes(Val(profile[user]).subscription_tier) IN
         [kind |-> "note_limit", allowed |-> notes[user] <= limit,
          current_count |-> notes[user], limit |-> limit, message |-> "count"]
    ELSE [kind |-> "note_limit", allowed |-> TRUE,
          current_count |-> notes[user], limit |-> get_max_notes("FREE"),
          message |-> "error"]

\* check_note_limit(user): user.profile raises when the row is missing and
\* the except branch answers
check_note_limit(user) ==
    IF profile[user] # {}
    THEN LET limit == get_max_notes(Val(profile[user]).subscription_tier) IN
         [kind |-> "note_limit", allowed |-> notes[user] < limit,
          current_count |-> notes[user], limit |-> limit, message |-> "count"]
    ELSE [kind |-> "note_limit", allowed |-> TRUE,
          current_count |-> notes[user], limit |-> get_max_notes("FREE"),
          message |-> "error"]

\* check_upload_size_limit comparing with <
check_upload_size_limit_strict(user, file_size_mb) ==
    LET limit_mb == IF profile[user] # {}
                    THEN get_max_upload_size_mb(Val(profile[user]).subscription_tier)
                    ELSE get_max_upload_size_mb("FREE")
    IN [kind |-> "upload_limit", allowed |-> file_size_mb < limit_mb,
        file_size_mb |-> file_size_mb, limit_mb |-> limit_mb]

\* check_upload_size_limit(user, file_size_mb)
check_upload_size_limit(user, file_size_mb) ==
    LET limit_mb == IF profile[user] # {}
                    THEN get_max_upload_size_mb(Val(profile[user]).subscription_tier)
                    ELSE get_max_upload_size_mb("FREE")
    IN [kind |-> "upload_limit", allowed |-> file_size_mb <= limit_mb,
        file_size_mb |-> file_size_mb, limit_mb |-> limit_mb]

\* check_api_access(user)
check_api_access(user) ==
    [kind |-> "api_access",
     allowed |-> IF profile[user] # {}
                 THEN has_api_access(Val(profile[user]).subscription_tier)
                 ELSE FALSE]

\* get_user_tier_info(user)
get_user_tier_info(user) ==
    IF profile[user] # {}
    THEN LET tier == Val(profile[user]).subscription_tier IN
         [kind |-> "tier_info", tier |-> tier,
          limits |-> [max_notes |-> get_max_notes(tier),
                      max_upload_size_mb |-> get_max_upload_size_mb(tier),
                      api_access |-> has_api_access(tier)],
          features |-> get_features(tier),
          is_active |-> IF subscription[user] # {}
                        THEN Val(subscription[user]).status = "ACTIVE"
                        ELSE tier # "FREE"]
    ELSE [kind |-> "tier_info", tier |-> "FREE",
          limits |-> [max_notes |-> get_max_notes("FREE"),
                      max_upload_size_mb |-> get_max_upload_size_mb("FREE"),
                      api_access |-> FALSE],
          features |-> get_features("FREE"),
          is_active |-> TRUE]

PermissionClasses ==
    {"IsFreeUser", "IsProUser", "IsEnterpriseUser", "IsProOrEnterprise", "IsAdmin"}

\* request.user of a request without credentials
AnonymousUser == "anonymous"

\* what has_permission gives: a value, or the exception of a missing profile
Granted(b) == [kind |-> "permission", raised |-> FALSE, value |-> b]
Raised == [kind |-> "permission", raised |-> TRUE, value |-> FALSE]

\* has_permission with IsProUser asking for the PRO tier only
has_permission_pro_only(cls, user) ==
    IF user = AnonymousUser THEN Granted(FALSE)
    ELSE IF cls = "IsAdmin"
    THEN Granted(staff[user].is_staff \/ staff[user].is_superuser)
    ELSE IF profile[user] = {} THEN Raised
    ELSE LET tier == Val(profile[user]).subscription_tier IN
         CASE cls = "IsFreeUser" -> Granted(tier = "FREE")
           [] cls = "IsProUser" -> Granted(tier = "PRO")
           [] cls = "IsEnterpriseUser" -> Granted(tier = "ENTERPRISE")
           [] cls = "IsProOrEnterprise" -> Granted(tier \in {"PRO", "ENTERPRISE"})

\* <class>.has_permission(request, view) of notes/permissions.py
has_permission(cls, user) ==
    IF user = AnonymousUser THEN Granted(FALSE)
    ELSE IF cls = "IsAdmin"
    THEN Granted(staff[user].is_staff \/ staff[user].is_superuser)
    ELSE IF profile[user] = {} THEN Raised
    ELSE LET tier == Val(profile[user]).subscription_tier IN
         CASE cls = "IsFreeUser" -> Granted(tier = "FREE")
           [] cls = "IsProUser" -> Granted(tier \in {"PRO", "ENTERPRISE"})
           [] cls = "IsEnterpriseUser" -> Granted(tier = "ENTERPRISE")
           [] cls = "IsProOrEnterprise" -> Granted(tier \in {"PRO", "ENTERPRISE"})

\* A call of one of the rbac_utils functions or permission classes: it
\* returns a value and writes nothing
RbacCall(op, user, args, value) ==
    /\ req' = Request(op, user, args)
    /\ out' = value
    /\ resp' = NoResponse
    /\ UNCHANGED <<now, users, profile, history, subscription, transactions,
                   audit, pwLog, confirmed, inst, pc, vreq, session, issued,
                   sessions, notes, staff>>

CheckNoteLimit(user) ==
    RbacCall("check_note_limit", user, <<>>, check_note_limit(user))

CheckUploadSizeLimit(user, file_size_mb) ==
    RbacCall("check_upload_size_limit", user, [file_size_mb |-> file_size_mb],
             check_upload_size_limit(user, file_size_mb))

CheckApiAccess(user) ==
    RbacCall("check_api_access", user, <<>>, check_api_access(user))

GetUserTierInfo(user) ==
    RbacCall("get_user_tier_info", user, <<>>, get_user_tier_info(user))

HasPermission(cls, user) ==
    RbacCall("has_permission", user, [cls |-> cls], has_permission(cls, user))

\* The admin site changes subscription_tier of a profile (UserProfileAdmin,
\* list_editable)
AdminSetTier(u, tier) ==
    /\ profile[u] # {}
    /\ Val(profile[u]).subscription_tier # tier
    /\ profile' = [profile EXCEPT ![u] = {[Val(profile[u]) EXCEPT
                                             !.subscription_tier = tier]}]
    /\ req' = Request("admin_set_tier", u, [tier |-> tier])
    /\ resp' = NoResponse
    /\ UNCHANGED <<now, users, history, subscription, transactions, audit,
                   pwLog, confirmed, inst, pc, vreq, session, issued,
                   sessions, notes, staff, out>>

\* The admin site changes is_staff / is_superuser of a User (CustomUserAdmin)
AdminSetStaff(u, flags) ==
    /\ users[u] # {}
    /\ staff[u] # flags
    /\ staff' = [staff EXCEPT ![u] = flags]
    /\ req' = Request("admin_set_staff", u, flags)
    /\ resp' = NoResponse
    /\ UNCHANGED <<now, users, profile, history, subscription, transactions,
                   audit, pwLog, confirmed, inst, pc, vreq, session, issued,
                   sessions, notes, out>>

\* how many notes an account may hold when a check is made: around each
\* tier's limit
NoteCounts == {0, 49, 50, 51, 999, 1000, 1001, 999998, 999999, 1000000}

\* upload sizes asked about, in MB: around each tier's limit
UploadSizes == {0, 5, 6, 10, 500, 501, 1000, 5000, 5001}

\* One registered FREE account with any number of notes and any
\* PremiumSubscription row
InitRbac ==
    /\ now = 0
    /\ users = [u \in Usernames |-> {[password |-> make_password(1)]}]
    /\ profile = [u \in Usernames |-> {DefaultProfile(0)}]
    /\ history = [u \in Usernames |-> <<>>]
    /\ subscription \in [Usernames ->
                            {{}, {DefaultSubscription},
                             {[DefaultSubscription EXCEPT !.status = "ACTIVE"]}}]
    /\ transactions = <<>>
    /\ audit = <<AuditEvent({"alice"}, "REGISTER", "New user registered", "alice")>>
    /\ req = NoRequest
    /\ resp = NoResponse
    /\ pwLog = [u \in Usernames |-> <<1>>]
    /\ confirmed = [u \in Usernames |-> {}]
    /\ inst = [w \in Workers |-> {}]
    /\ pc = [w \in Workers |-> "idle"]
    /\ vreq = {}
    /\ session = {}
    /\ issued = 0
    /\ sessions = [i \in SessionIds |-> {}]
    /\ notes \in [Usernames -> NoteCounts]
    /\ staff = [u \in Usernames |-> NoFlags]
    /\ out = NoOut

NextRbac ==
    \/ \E u \in Usernames : CheckNoteLimit(u)
    \/ \E u \in Usernames, size \in UploadSizes : CheckUploadSizeLimit(u, size)
    \/ \E u \in Usernames : CheckApiAccess(u)
    \/ \E u \in Usernames : GetUserTierInfo(u)
    \/ \E cls \in PermissionClasses, u \in Usernames \cup {AnonymousUser} :
          HasPermission(cls, u)
    \/ \E u \in Usernames, tier \in Tiers : AdminSetTier(u, tier)
    \/ \E u \in Usernames, flags \in [is_staff : BOOLEAN, is_superuser : BOOLEAN] :
          AdminSetStaff(u, flags)
    \/ \E u \in Usernames : AdminDeleteProfile(u)

SpecRbac == InitRbac /\ [][NextRbac]_vars

----------------------------------------------------------------------------
\* Claims on two-factor authentication

\* The interval a code was generated for, as an offset from t, for secret k;
\* {} when the code is none of k's codes around t
StepsOf(code, k, t) == {d \in (0 - Drift)..Drift : code = totp_at(k, t + d)}

\* C6: at time-step T = now, a verification (verify_two_factor, and the token
\* check of a login that reaches it) accepts a code exactly when the account
\* has a secret stored and the code is that secret's code for step T-1, T or
\* T+1; that secret's codes for T-2 and T+2, the codes of another secret, and
\* every code when no secret is stored are rejected.
C6_TotpWindow ==
    [][/\ req'.op = "verify_two_factor"
          => LET p == Val(profile[req'.user])
                 code == req'.args.token
             IN (resp'.kind = "Ok")
                  <=> (/\ p.two_factor_secret # {}
                       /\ StepsOf(code, Val(p.two_factor_secret), now)
                            \cap {0 - 1, 0, 1} # {})
       /\ (/\ req'.op = "login"
           /\ req'.args.token # {}
           /\ Val(profile[req'.user]).two_factor_enabled
           /\ resp'.detail # "Invalid credentials"
           /\ resp'.kind # "Locked")
          => LET p == Val(profile[req'.user])
                 code == Val(req'.args.token)
             IN (resp'.detail = "Invalid 2FA token")
                  <=> (StepsOf(code, Val(p.two_factor_secret), now)
                         \cap {0 - 1, 0, 1} = {})
      ]_vars

\* C6 witness: with 2FA enabled, a login presenting the stored secret's code
\* for step now+2 was answered "Invalid 2FA token"
C6_Witness ==
    /\ req.op = "login" /\ resp.detail = "Invalid 2FA token"
    /\ now >= 1
    /\ LET p == Val(profile[req.user]) IN
         /\ p.two_factor_enabled
         /\ StepsOf(Val(req.args.token), Val(p.two_factor_secret), now) = {2}

\* C7 (as claimed): the secret login enforces (two_factor_secret of an account
\* with two_factor_enabled) is always the secret a successful verify call
\* confirmed.
C7_OnlyConfirmedSecretActive ==
    \A u \in Usernames :
        (profile[u] # {} /\ Val(profile[u]).two_factor_enabled)
        => Val(profile[u]).two_factor_secret = confirmed[u]

\* The login request of this step: correct password, 2FA enabled, and no token
\* or a token that does not verify
GatedLogin ==
    /\ req'.op = "login"
    /\ profile[req'.user] # {}
    /\ Val(profile[req'.user]).two_factor_enabled
    /\ authenticate(req'.user, req'.args.password)
    /\ \/ req'.args.token = {}
       \/ ~verify_totp(Val(profile[req'.user]), Val(req'.args.token), now)

----------------------------------------------------------------------------
\* Claims on password change

\* The change_password request of this step, with an old password that verifies
ChangeWithValidOld ==
    /\ req'.op = "change_password"
    /\ check_password(req'.args.old_password, Val(users[req'.user]).password)

\* The passwords of an account's last five settings, registration included
LastPasswords(u) ==
    {pwLog[u][i] : i \in 1..Len(Take(pwLog[u], PASSWORD_HISTORY_COUNT))}

\* C4 (as claimed): after a successful change the old password no longer
\* verifies and the new one does; and a change whose new password is one of
\* the account's last 5 passwords (the registration password and the current
\* one included) is rejected with PolicyViolation.
C4_NoReuseOfLastFive ==
    [][ChangeWithValidOld =>
        LET u == req'.user IN
        /\ resp'.kind = "Ok"
           => /\ ~check_password(req'.args.old_password, Val(users'[u]).password)
              /\ check_password(req'.args.new_password, Val(users'[u]).password)
        /\ req'.args.new_password \in LastPasswords(u)
           => resp'.kind = "PolicyViolation"
      ]_vars

\* C5: a change_password request answered AuthenticationFailure (the old
\* password does not verify) or PolicyViolation (the new password is in the
\* history or fails validation) leaves the credential hash, the password
\* history, password_changed_at and force_password_change as they were and
\* writes no audit row; and these are the answers in those cases.
C5_RejectedChangeWritesNothing ==
    [][req'.op = "change_password" =>
        LET u == req'.user
            old_ok == check_password(req'.args.old_password, Val(users[u]).password)
            new == req'.args.new_password
        IN
        /\ ~old_ok => resp'.kind = "AuthenticationFailure"
        /\ (old_ok /\ (~check_password_history(u, new) \/ ~validate_password(new)))
           => resp'.kind = "PolicyViolation"
        /\ resp'.kind \in {"AuthenticationFailure", "PolicyViolation"}
           => /\ users' = users
              /\ history' = history
              /\ profile' = profile
              /\ audit' = audit
      ]_vars

\* C5 witness: a change was rejected for reuse on an account that had changed
\* its password before, at a later time and with force_password_change set
C5_Witness ==
    /\ req.op = "change_password"
    /\ resp.detail = "Cannot reuse recent passwords"
    /\ Val(profile[req.user]).force_password_change
    /\ now > Val(profile[req.user]).password_changed_at

----------------------------------------------------------------------------
\* Claims on the callback signature

\* the payload of the esewa_success request last handled
CallbackData == req.args.data

\* the fields that signed_field_names names
NamedFields(data) == {split_names(data)[i] : i \in 1..Len(split_names(data))}

\* the fields of the payload that are named in signed_field_names and present
SignedPresent(data) ==
    {f \in {"total_amount", "transaction_uuid"} :
        f \in NamedFields(data) /\ data[f] # {}}

\* C13 (as claimed): for a payload whose signature verifies, replacing the
\* value of one field named in signed_field_names by any other value, the
\* signature kept, makes verify_esewa_payment return false.
C13_TamperDetectedClaimed ==
    (req.op = "esewa_success" /\ verify_esewa_payment(CallbackData)) =>
        \A f \in SignedPresent(CallbackData) :
            \A x \in FieldValues(f) \ CallbackData[f] :
                ~verify_esewa_payment([CallbackData EXCEPT ![f] = {x}])

\* C13 (amended): for a payload whose signature verifies, replacing the value
\* of one field named in signed_field_names by a value with a different text
\* rendering, the signature kept, makes verify_esewa_payment return false.
C13_TamperDetected ==
    (req.op = "esewa_success" /\ verify_esewa_payment(CallbackData)) =>
        \A f \in SignedPresent(CallbackData) :
            \A x \in FieldValues(f) :
                str(x) # str(Val(CallbackData[f]))
                    => ~verify_esewa_payment([CallbackData EXCEPT ![f] = {x}])

\* C13 witness: the callback was handed a payload that is one field away, in
\* rendering too, from one whose signature verifies, and answered
\* Invalid signature
C13_Witness ==
    /\ req.op = "esewa_success"
    /\ resp.kind = "SignatureFailure"
    /\ \E f \in SignedPresent(CallbackData) : \E x \in FieldValues(f) :
          /\ str(x) # str(Val(CallbackData[f]))
          /\ verify_esewa_payment([CallbackData EXCEPT ![f] = {x}])

\* a payload in which signed_field_names, the signature or a named field is
\* missing or not decodable
Incomplete(data) ==
    \/ data.kind # "dict"
    \/ data.signed_field_names = {}
    \/ Val(data.signed_field_names).type # "str"
    \/ data.signature = {}
    \/ \E f \in NamedFields(data) :
          f \notin {"total_amount", "transaction_uuid"} \/ data[f] = {}

\* C14 (as claimed): verify_esewa_payment returns false for every payload in
\* which signed_field_names, the signature or a named field is missing or
\* undecodable, and returns true only when the received signature is the HMAC
\* over the named fields.
C14_VerifyFailsClosed ==
    req.op = "esewa_success" =>
        /\ Incomplete(CallbackData) => ~verify_esewa_payment(CallbackData)
        /\ verify_esewa_payment(CallbackData)
             => Val(CallbackData.signature).text
                  = hmac_sha256(secret_key, signature_string(CallbackData))

\* C15 (as claimed): a success callback is accepted only when the session
\* tracks a pending transaction and the payload's transaction_uuid is the
\* UUID of that transaction; unmatched and replayed callbacks are rejected
\* though their signature is valid.
C15_AcceptedOnlyIfPending ==
    [][(req'.op = "esewa_success" /\ resp'.kind = "Ok") =>
        /\ session # {}
        /\ req'.args.data.transaction_uuid = {StrValue(Val(session).uuid)}
      ]_vars

----------------------------------------------------------------------------
\* Claims on what is written to the audit ledger

\* AuditLog.ACTION_CHOICES
ACTION_CHOICES ==
    {"LOGIN", "LOGOUT", "REGISTER", "CREATE_NOTE", "UPDATE_NOTE", "DELETE_NOTE",
     "ACCESS_DENIED", "FAILED_LOGIN"}

\* the handlers of the operations that change account, 2FA, password or
\* payment state
AuditedOps ==
    {"register", "login", "logout", "setup_two_factor", "verify_two_factor",
     "change_password", "initiate_esewa_payment", "verify_esewa_payment"}

\* the request of this step has returned, and it changed a table or failed
ChangedOrFailed ==
    /\ req'.op \in AuditedOps
    /\ resp'.kind # "Pending"
    /\ \/ <<users, profile, history, subscription, transactions>>'
             # <<users, profile, history, subscription, transactions>>
       \/ resp'.status >= 400

\* C18 (as claimed): every state-changing operation (register, login, logout,
\* 2FA secret generation, 2FA enable, 2FA disable, password change, payment
\* initiate, payment verify) writes exactly one audit event, on its failure
\* path too.
C18_OneEventPerOperation ==
    [][ChangedOrFailed => Len(audit') = Len(audit) + 1]_vars

\* C19 (as claimed): every authentication failure (bad credentials, bad 2FA
\* token, wrong old password on a password change) and every payment
\* signature failure has written an audit event when the error response is
\* returned.
C19_FailuresAreAudited ==
    [][resp'.kind \in {"AuthenticationFailure", "SignatureFailure"}
          => /\ Len(audit') = Len(audit) + 1
             /\ audit'[Len(audit')].action \in ACTION_CHOICES
      ]_vars

\* C20 (as claimed): the action of every recorded event is one of the action
\* enumeration, and 2FA enabled/disabled and password changed are recorded
\* under actions of their own, not as note updates.
C20_ActionsClosedAndDistinct ==
    \A i \in 1..Len(audit) :
        /\ audit[i].action \in ACTION_CHOICES
        /\ audit[i].action = "UPDATE_NOTE"
             => audit[i].details[1] \notin
                  {"2FA enabled successfully", "2FA disabled", "Password changed"}

----------------------------------------------------------------------------
\* Claims on the login answer

\* The login request of this step names an account that does not exist
UnknownUserLogin == req'.op = "login" /\ users[req'.user] = {}

\* The login request of this step names an existing account and carries a
\* password that does not verify against its stored hash
WrongPasswordLogin ==
    /\ req'.op = "login"
    /\ users[req'.user] # {}
    /\ ~check_password(req'.args.password, Val(users[req'.user]).password)

\* C21: a login for an unknown username and a login for a known username with
\* a wrong password get the same answer, status 401 with the message
\* "Invalid credentials", whatever the state of the account
C21_LoginIndistinguishable ==
    [][(UnknownUserLogin \/ WrongPasswordLogin) =>
        /\ resp'.status = 401
        /\ resp'.detail = "Invalid credentials"
        /\ resp'.kind = "AuthenticationFailure"
      ]_vars

\* C21 witness: the ledger holds a failed login from before the account was
\* registered and one from after, the latter on a locked account
C21_Witness ==
    /\ req.op = "login" /\ resp.status = 401
    /\ users[req.user] # {}
    /\ profile[req.user] # {}
    /\ Val(profile[req.user]).account_locked_until # {}
    /\ \E i, j, k \in 1..Len(audit) :
          /\ i < j /\ j < k
          /\ audit[i].action = "FAILED_LOGIN"
          /\ audit[j].action = "REGISTER"
          /\ audit[k].action = "FAILED_LOGIN"

----------------------------------------------------------------------------
\* Claims on sessions

\* The request of this step asks to terminate the session with a well-formed
\* id that user `req'.user` does not own: no such row, or a row of another user
RevokeNotOwned(foreign) ==
    /\ req'.op = "sessions_revoke"
    /\ req'.args.session_id.type = "int"
    /\ LET i == req'.args.session_id.id IN
       IF foreign
       THEN i \in SessionIds /\ sessions[i] # {}
            /\ Val(sessions[i]).user # req'.user
       ELSE i \notin SessionIds \/ sessions[i] = {}

\* C22: terminating a session that belongs to another user is answered like
\* terminating one that does not exist, 404 "Session not found"; it changes no
\* session row and writes no audit event
C22_ForeignSessionNotFound ==
    [][(RevokeNotOwned(TRUE) \/ RevokeNotOwned(FALSE)) =>
        /\ resp' = Response(404, "NotFound", "Session not found")
        /\ out' = NoOut
        /\ sessions' = sessions
        /\ audit' = audit
      ]_vars

\* C22 witness: the caller was answered 404 for the id of another user's
\* active session
C22_Witness ==
    /\ req.op = "sessions_revoke" /\ resp.status = 404
    /\ req.args.session_id.type = "int"
    /\ req.args.session_id.id \in SessionIds
    /\ sessions[req.args.session_id.id] # {}
    /\ Val(sessions[req.args.session_id.id]).user # req.user
    /\ Val(sessions[req.args.session_id.id]).is_active

\* C23: listing and terminating never remove a session row nor change its
\* owner; terminating one's own session sets is_active to false on that row
\* only; a row that is inactive stays inactive; and the list holds exactly the
\* caller's rows with is_active true
C23_SessionsSoftDeleted ==
    [][/\ \A i \in SessionIds :
           sessions[i] # {} =>
               /\ sessions'[i] # {}
               /\ Val(sessions'[i]).user = Val(sessions[i]).user
               /\ ~Val(sessions[i]).is_active => ~Val(sessions'[i]).is_active
       /\ \A i \in SessionIds : sessions[i] = {} => sessions'[i] = {}
       /\ (req'.op = "sessions_revoke" /\ resp'.status = 200) =>
               LET i == req'.args.session_id.id IN
               /\ Val(sessions[i]).user = req'.user
               /\ ~Val(sessions'[i]).is_active
               /\ \A j \in SessionIds \ {i} : sessions'[j] = sessions[j]
       /\ req'.op = "sessions_list" =>
               /\ sessions' = sessions
               /\ out'.ids = {i \in SessionIds :
                                 /\ sessions[i] # {}
                                 /\ Val(sessions[i]).user = req'.user
                                 /\ Val(sessions[i]).is_active}
      ]_vars

\* C23 witness: a list that follows a termination leaves out the terminated
\* session, whose row is still there, and holds another session of the caller
C23_Witness ==
    /\ req.op = "sessions_list"
    /\ out.ids # {}
    /\ \E i \in SessionIds :
          /\ sessions[i] # {}
          /\ Val(sessions[i]).user = req.user
          /\ ~Val(sessions[i]).is_active
          /\ i \notin out.ids
    /\ \E k \in 1..Len(audit) : audit[k].details[1] = "Session terminated"

----------------------------------------------------------------------------
\* Claims on tier limits and role predicates

\* The limits the tiers are to have
TierTable ==
    [FREE |-> [max_notes |-> 50, max_upload_size_mb |-> 5, api_access |-> FALSE],
     PRO |-> [max_notes |-> 1000, max_upload_size_mb |-> 500, api_access |-> TRUE],
     ENTERPRISE |-> [max_notes |-> 999999, max_upload_size_mb |-> 5000,
                     api_access |-> TRUE]]

\* The call of this step is `op`, made for an account that has a profile
RbacCallWithProfile(op) == req'.op = op /\ profile[req'.user] # {}

\* The call of this step is `op`, made for an account whose profile is missing
RbacCallWithoutProfile(op) ==
    /\ req'.op = op
    /\ req'.user \in Usernames
    /\ profile[req'.user] = {}

\* C24: for a user of tier FREE, PRO or ENTERPRISE, get_user_tier_info reports
\* that tier with limits 50/5/no API, 1000/500/API, 999999/5000/API, and
\* check_note_limit reports the same max_notes as its limit
C24_TierLimitsTable ==
    [][/\ RbacCallWithProfile("get_user_tier_info") =>
            LET tier == Val(profile[req'.user]).subscription_tier IN
            /\ tier \in Tiers
            /\ out'.tier = tier
            /\ out'.limits = TierTable[tier]
       /\ RbacCallWithProfile("check_note_limit") =>
            LET tier == Val(profile[req'.user]).subscription_tier IN
            out'.limit = TierTable[tier].max_notes
      ]_vars

\* C24 witness: get_user_tier_info has answered for an ENTERPRISE account
C24_Witness ==
    /\ req.op = "get_user_tier_info"
    /\ profile[req.user] # {}
    /\ Val(profile[req.user]).subscription_tier = "ENTERPRISE"
    /\ out.limits.max_notes = 999999

\* C25: for an account with a profile, check_note_limit reports the current
\* note count and the tier's limit, and allows exactly when the count is
\* strictly below the limit; FREE with 50 notes is denied, with 49 allowed
C25_NoteLimitStrict ==
    [][RbacCallWithProfile("check_note_limit") =>
        LET tier == Val(profile[req'.user]).subscription_tier
            count == notes[req'.user]
        IN
        /\ out'.current_count = count
        /\ out'.limit = TierTable[tier].max_notes
        /\ out'.allowed <=> (count < TierTable[tier].max_notes)
        /\ (tier = "FREE" /\ count = 50) => ~out'.allowed
        /\ (tier = "FREE" /\ count = 49) => out'.allowed
      ]_vars

\* C25 witness: a FREE account with exactly 50 notes was denied
C25_Witness ==
    /\ req.op = "check_note_limit"
    /\ profile[req.user] # {}
    /\ Val(profile[req.user]).subscription_tier = "FREE"
    /\ notes[req.user] = 50
    /\ ~out.allowed

\* C26: for an account with a profile, check_upload_size_limit allows exactly
\* when the size is at most the tier's max_upload_size_mb
C26_UploadLimitInclusive ==
    [][RbacCallWithProfile("check_upload_size_limit") =>
        LET tier == Val(profile[req'.user]).subscription_tier
            size == req'.args.file_size_mb
        IN
        /\ out'.limit_mb = TierTable[tier].max_upload_size_mb
        /\ out'.allowed <=> (size <= TierTable[tier].max_upload_size_mb)
      ]_vars

\* C26 witness: a PRO account was allowed an upload of exactly 500 MB
C26_Witness ==
    /\ req.op = "check_upload_size_limit"
    /\ profile[req.user] # {}
    /\ Val(profile[req.user]).subscription_tier = "PRO"
    /\ req.args.file_size_mb = 500
    /\ out.allowed

\* C27: when the profile of the account is missing, every check answers as for
\* a FREE account: notes are denied at 50 or more, uploads above 5 MB, API
\* access always, and the tier reported is FREE with the FREE limits
C27_MissingProfileIsFree ==
    [][/\ RbacCallWithoutProfile("check_note_limit") =>
            /\ out'.limit = 50
            /\ out'.allowed <=> (notes[req'.user] < 50)
       /\ RbacCallWithoutProfile("check_upload_size_limit") =>
            /\ out'.limit_mb = 5
            /\ out'.allowed <=> (req'.args.file_size_mb <= 5)
       /\ RbacCallWithoutProfile("check_api_access") => ~out'.allowed
       /\ RbacCallWithoutProfile("get_user_tier_info") =>
            /\ out'.tier = "FREE"
            /\ out'.limits = TierTable["FREE"]
      ]_vars

\* What each role predicate is to answer for a tier and the staff flags
RolePredicate(cls, tier, flags) ==
    CASE cls = "IsFreeUser" -> tier = "FREE"
      [] cls = "IsProUser" -> tier \in {"PRO", "ENTERPRISE"}
      [] cls = "IsProOrEnterprise" -> tier \in {"PRO", "ENTERPRISE"}
      [] cls = "IsEnterpriseUser" -> tier = "ENTERPRISE"
      [] cls = "IsAdmin" -> flags.is_staff \/ flags.is_superuser

\* C28: for an authenticated user with a profile each role predicate answers
\* by the tier and the staff flags alone, as the table of predicates says, at
\* whatever tier the account has by then; IsAdmin answers by the flags also
\* without a profile; and evaluating a predicate changes no stored state
C28_RolePredicatesPure ==
    [][(req'.op = "has_permission" /\ req'.user \in Usernames) =>
        /\ profile[req'.user] # {} =>
              out' = Granted(RolePredicate(req'.args.cls,
                                           Val(profile[req'.user]).subscription_tier,
                                           staff[req'.user]))
        /\ req'.args.cls = "IsAdmin" =>
              out' = Granted(staff[req'.user].is_staff
                             \/ staff[req'.user].is_superuser)
        /\ UNCHANGED <<now, users, profile, history, subscription, transactions,
                       audit, pwLog, confirmed, sessions, notes, staff>>
      ]_vars

\* C28 witness: IsProUser has granted an account that registration made FREE
\* and the admin site has since moved to PRO
C28_Witness ==
    /\ req.op = "has_permission" /\ req.args.cls = "IsProUser"
    /\ req.user \in Usernames
    /\ profile[req.user] # {}
    /\ Val(profile[req.user]).subscription_tier = "PRO"
    /\ out = Granted(TRUE)

----------------------------------------------------------------------------
\* Claims on the failure counter and the lock check

\* C29: increment_failed_login adds exactly 1 to failed_login_attempts, sets
\* last_failed_login to now, and sets account_locked_until to now plus the
\* cooloff exactly when the new count is at or above the threshold; below it
\* account_locked_until is left as it was
C29_IncrementFailedLogin ==
    [][req'.op = "increment_failed_login" =>
        LET u == req'.user
            p == Val(profile[u])
            q == Val(profile'[u])
        IN
        /\ q.failed_login_attempts = p.failed_login_attempts + 1
        /\ q.last_failed_login = {now}
        /\ q.account_locked_until =
              IF q.failed_login_attempts >= 5
              THEN {now + CooloffTicks} ELSE p.account_locked_until
        /\ \A f \in DOMAIN p \ {"failed_login_attempts", "last_failed_login",
                                  "account_locked_until"} : q[f] = p[f]
      ]_vars

\* C29 witness: the fifth recorded failure has locked the account until now
\* plus the cooloff
C29_Witness ==
    /\ req.op = "increment_failed_login"
    /\ Val(profile[req.user]).failed_login_attempts = 5
    /\ Val(profile[req.user]).last_failed_login = {now}
    /\ Val(profile[req.user]).account_locked_until = {now + CooloffTicks}

\* The login of this step reaches the lock check on a stored profile: the
\* password verifies
LockChecked ==
    /\ req'.op = "login"
    /\ authenticate(req'.user, req'.args.password)
    /\ profile[req'.user] # {}

\* What the lock check is to do when `expired` says that the lock has run out
LockCheckRule(expired) ==
    LET u == req'.user
        p == Val(profile[u])
        q == Val(profile'[u])
        until == p.account_locked_until
    IN
    IF until # {} /\ expired
    THEN /\ q.account_locked_until = {}
         /\ q.failed_login_attempts = 0
         /\ resp'.kind # "Locked"
    ELSE /\ resp'.kind = "Locked" <=> (until # {} /\ Val(until) > now)
         /\ q.account_locked_until = until
         /\ resp'.kind = "Locked" => q = p
         /\ resp'.kind # "Tokens" =>
               q.failed_login_attempts = p.failed_login_attempts

C31_SuccessResetsCounters ==
    [][(req'.op = "login" /\ resp'.kind = "Tokens") =>
        LET q == Val(profile'[req'.user]) IN
        /\ q.failed_login_attempts = 0
        /\ q.last_failed_login = {}
        /\ q.account_locked_until = {}
      ]_vars

\* C31 witness: tokens were issued to an account that an earlier login had
\* found locked
C31_Witness ==
    /\ req.op = "login" /\ resp.kind = "Tokens"
    /\ \E i, j \in 1..Len(audit) :
          /\ i < j
          /\ audit[i].action = "ACCESS_DENIED"
          /\ audit[j].action = "LOGIN"
          /\ j = Len(audit)

\* C39: for every account, account_locked_until set implies that
\* failed_login_attempts is at or above the threshold of 5
C39_LockImpliesThreshold ==
    \A u \in Usernames :
        (profile[u] # {} /\ Val(profile[u]).account_locked_until # {})
            => Val(profile[u]).failed_login_attempts >= 5

\* C39 witness: reset_failed_login has cleared the counter and the lock of an
\* account that a login had found locked
C39_Witness ==
    /\ req.op = "reset_failed_login"
    /\ Val(profile[req.user]).account_locked_until = {}
    /\ Val(profile[req.user]).failed_login_attempts = 0
    /\ audit # <<>>
    /\ audit[Len(audit)].action = "ACCESS_DENIED"
    /\ now < CooloffTicks

----------------------------------------------------------------------------
\* Claims on the password history and the effects of a change

\* How many password changes of account u the ledger records
PasswordChanges(u) ==
    Cardinality({i \in 1..Len(audit) :
                    audit[i].user = {u} /\ audit[i].details[1] = "Password changed"})

\* C32: every account has at most 5 PasswordHistory entries, one for each of
\* its password changes up to 5, and they are the hashes of its most recent
\* changes, newest first
C32_HistoryCapped ==
    \A u \in Usernames :
        /\ Len(history[u]) <= 5
        /\ Len(history[u]) = IF PasswordChanges(u) < 5 THEN PasswordChanges(u) ELSE 5
        /\ \A i \in 1..Len(history[u]) :
              check_password(pwLog[u][i], history[u][i].password_hash)

\* C32 witness: the account has changed its password six times and holds five
\* history entries
C32_Witness ==
    \E u \in Usernames : PasswordChanges(u) = 6 /\ Len(history[u]) = 5

\* C33: a change_password answered with success stores a hash of the new
\* password as the credential, puts one PasswordHistory entry for it in front
\* of the ones there were (of which at most the 4 newest stay), sets
\* password_changed_at to now and force_password_change to false, and the
\* password is then not expired
C33_SuccessfulChangeEffects ==
    [][(req'.op = "change_password" /\ resp'.status = 200) =>
        LET u == req'.user
            new == req'.args.new_password
            q == Val(profile'[u])
        IN
        /\ check_password(new, Val(users'[u]).password)
        /\ history'[u] # <<>>
        /\ check_password(new, Head(history'[u]).password_hash)
        /\ Tail(history'[u]) = Take(history[u], 4)
        /\ q.password_changed_at = now
        /\ ~q.force_password_change
        /\ ~(now > q.password_changed_at + ExpiryTicks)
      ]_vars

\* C33 witness: a change has succeeded, not the account's first, some time
\* after registration
C33_Witness ==
    /\ req.op = "change_password" /\ resp.status = 200
    /\ Len(history[req.user]) >= 2
    /\ now > 0
    /\ Val(profile[req.user]).password_changed_at = now

----------------------------------------------------------------------------
\* Claims on disabling two-factor authentication and on password expiry

\* two_factor_enabled implies that a secret is stored, for every account
EnabledHasSecret ==
    \A u \in Usernames :
        (profile[u] # {} /\ Val(profile[u]).two_factor_enabled)
            => Val(profile[u]).two_factor_secret # {}

\* C34: in every state two_factor_enabled implies that two_factor_secret is
\* set, and a setup_two_factor request that disables leaves the account with
\* neither the flag nor a secret
C34_DisableClearsBoth ==
    /\ []EnabledHasSecret
    /\ [][(req'.op = "setup_two_factor" /\ ~req'.args.enable) =>
            /\ ~Val(profile'[req'.user]).two_factor_enabled
            /\ Val(profile'[req'.user]).two_factor_secret = {}
         ]_vars

\* C34 witness: two-factor authentication was disabled on an account on which
\* it had been enabled
C34_Witness ==
    /\ req.op = "setup_two_factor" /\ ~req.args.enable
    /\ ~Val(profile[req.user]).two_factor_enabled
    /\ Val(profile[req.user]).two_factor_secret = {}
    /\ \E i \in 1..Len(audit) : audit[i].details[1] = "2FA enabled successfully"

\* The login of this step carries the right password for an account whose
\* password has expired (no account of these runs has two-factor enabled)
ExpiredLogin ==
    /\ req'.op = "login"
    /\ authenticate(req'.user, req'.args.password)
    /\ profile[req'.user] # {}
    /\ now > Val(profile[req'.user]).password_changed_at + ExpiryTicks

----------------------------------------------------------------------------
\* Claims on the payment form

\* the "field=value" pairs of the fields that signed_field_names names, in the
\* order given, read from the form itself
NamedPairs(data) ==
    LET names == Val(data.signed_field_names).text IN
    [i \in 1..Len(names) |-> <<names[i], Val(data[names[i]]).text>>]

\* every form generated names total_amount, transaction_uuid and product_code
\* and is signed over exactly their pairs
FormSignedOverNamedFields ==
    out.kind = "form" =>
        /\ Val(out.data.signed_field_names).text
             = <<"total_amount", "transaction_uuid", "product_code">>
        /\ Val(out.data.signature).text
             = hmac_sha256(secret_key, NamedPairs(out.data))

\* C36: the form that generate_esewa_form_data produces for an order is
\* accepted by verify_esewa_payment, and its signature is over the
\* "field=value" pairs of exactly the fields named in signed_field_names, in
\* that order
C36_SignVerifyRoundTrip ==
    /\ []FormSignedOverNamedFields
    /\ [][req'.op = "verify_form" => out'.accepted]_vars

\* C36 witness: the form of an order whose amount was given as the number 599
\* and whose product code was left out has been verified and accepted
C36_Witness ==
    /\ req.op = "verify_form"
    /\ out.accepted
    /\ out.data.total_amount = {StrValue("599.00")}
    /\ out.data.product_code = {StrValue("EPAYTEST")}

----------------------------------------------------------------------------
\* Claims on the success callback and the session entry

\* C37 (as claimed): esewa_success never answers "Payment successful" when
\* the session holds no pending esewa_transaction, whatever validly signed
\* payload it is given (one without a transaction_uuid included) and also
\* after a success or failure callback has cleared the session entry.
C37_NoSuccessWithoutPending ==
    [][(req'.op = "esewa_success" /\ session = {}) => resp'.kind # "Ok"]_vars

----------------------------------------------------------------------------
\* Claims on the payment identifiers

\* no two Transaction rows share an esewa_order_id, and no two share an
\* esewa_ref_id
IdentifiersUnique ==
    \A i, j \in 1..Len(transactions) :
        i # j =>
            /\ transactions[i].esewa_order_id # transactions[j].esewa_order_id
            /\ \/ transactions[i].esewa_ref_id = {}
               \/ transactions[i].esewa_ref_id # transactions[j].esewa_ref_id

\* this step is the arrival of a verify_esewa_payment request whose ref_id is
\* held by a transaction other than the one the order_id names
VerifyWithForeignRef ==
    /\ vreq = {}
    /\ req'.op = "verify_esewa_payment"
    /\ \E i \in 1..Len(transactions) :
          /\ transactions[i].esewa_ref_id = {req'.args.ref_id}
          /\ transactions[i].esewa_order_id # req'.args.order_id

\* this step is an initiate_esewa_payment request with an order_id that a
\* transaction already carries
InitiateWithUsedOrder ==
    /\ req'.op = "initiate_esewa_payment"
    /\ \E i \in 1..Len(transactions) :
          transactions[i].esewa_order_id = req'.args.order_id

\* C38: an esewa_ref_id and an esewa_order_id are each attached to at most
\* one transaction; verifying with a ref_id that a different transaction
\* already holds completes nothing and changes no tier, and initiating with an
\* order_id already in use creates no transaction.
C38_IdentifiersUnique ==
    /\ []IdentifiersUnique
    /\ [][VerifyWithForeignRef =>
             /\ UNCHANGED <<transactions, subscription, profile, vreq, audit>>
             /\ resp'.status >= 400]_vars
    /\ [][InitiateWithUsedOrder =>
             /\ UNCHANGED <<transactions, audit>>
             /\ resp'.status >= 400]_vars

\* C38 witness: a second, pending transaction was verified with the reference
\* of a completed one and the request failed
C38_Witness ==
    /\ req.op = "verify_esewa_payment"
    /\ resp.status = 500
    /\ \E i, j \in 1..Len(transactions) :
          /\ transactions[i].status = "COMPLETED"
          /\ transactions[i].esewa_ref_id = {req.args.ref_id}
          /\ transactions[j].status = "PENDING"
          /\ transactions[j].esewa_order_id = req.args.order_id
          /\ transactions[j].esewa_ref_id = {}

----------------------------------------------------------------------------
\* Claims on what a paid tier rests on

\* the plan price of a paid tier
PriceOfTier ==
    [PRO |-> SUBSCRIPTION_PRICES_NPR.pro,
     ENTERPRISE |-> SUBSCRIPTION_PRICES_NPR.enterprise]

\* the tiers the account holds: on its profile and on its subscription row
TiersHeld(u) ==
    {r.subscription_tier : r \in profile[u]} \cup {r.tier : r \in subscription[u]}

\* every paid tier an account holds is the tier of a COMPLETED transaction the
\* account owns, whose amount is the plan price
TierPaidFor ==
    \A u \in Usernames :
        \A tier \in TiersHeld(u) \cap {"PRO", "ENTERPRISE"} :
            \E i \in 1..Len(transactions) :
                /\ transactions[i].user = u
                /\ transactions[i].status = "COMPLETED"
                /\ transactions[i].subscription_tier = tier
                /\ transactions[i].amount = PriceOfTier[tier]

\* the rows of other accounts are as they were before the step
OthersRowsUntouched ==
    \A i \in 1..Len(transactions) :
        transactions[i].user # req'.user =>
            /\ i <= Len(transactions')
            /\ transactions'[i] = transactions[i]

\* C40: a subscription tier of PRO or ENTERPRISE is held only by a user who
\* owns a COMPLETED transaction of that tier whose amount is the plan price,
\* and a verification completes only a transaction of the caller.
C40_TierRestsOnOwnTransaction ==
    /\ []TierPaidFor
    /\ [][req'.op = "verify_esewa_payment" => OthersRowsUntouched]_vars

\* C40 witness: the account holds PRO, and its verification of the order of
\* another account's pending transaction found no transaction
C40_Witness ==
    /\ req.op = "verify_esewa_payment"
    /\ resp.status = 404
    /\ TiersHeld("alice") = {"PRO"}
    /\ \E i \in 1..Len(transactions) :
          /\ transactions[i].user = "bob"
          /\ transactions[i].status = "PENDING"
          /\ transactions[i].esewa_order_id = req.args.order_id

====
